---- MODULE Spec2Model ----
(***************************************************************************)
(* A model of the agent-key credential vault: the credential service with  *)
(* its version chain, and the ephemeral token service with its revocation  *)
(* state, over a relational store of rows.                                 *)
(*                                                                         *)
(*   Spec      the credential service across tenants, a handler per step   *)
(*   SpecVer   one tenant's credential: create, rotate, update, delete     *)
(*   SpecRot   two Credential::rotate transactions, one statement per step *)
(*   SpecTok   the ephemeral token service, one handler per step           *)
(*   SpecFault the same, a store call of generate_token may fail or the    *)
(*             request be cancelled there                                  *)
(*   SpecRace  generate / verify / revoke requests, a statement per step   *)
(*   SpecJwt   session tokens: JwtService, refresh, the AuthUser extractor *)
(*   SpecAuth  register and login, a statement of register may fail       *)
(*   SpecAgent update, delete and key lookup of agents                     *)
(*   SpecCreate two create_agent calls, a store call per step, may fail    *)
(*   SpecCredFault create_credential, a store call of which may fail       *)
(*   SpecNames create_agent and create_credential, a store call per step   *)
(*   SpecLife  one credential's life: create, use, delete, create again    *)
(*   SpecDecrypt the decrypt route an agent calls with its API key         *)
(*   SpecIssue generate_token while agents and credentials come and go     *)
(*   SpecRoles the credential routes of a session user, behind RequireRole *)
(*   SpecTwin  two runs of the same calls that differ in the secrets given *)
(*   SpecCipher EncryptionService: encrypt, decrypt, the hex text between  *)
(*   SpecRevoke two revoke_token requests, a statement per step, beside    *)
(*             generate_token and the sweep                                *)
(*   SpecMove  decrypt and generate_token over rows whose encrypted_value  *)
(*             was copied from another row                                 *)
(*   SpecVerify verify_token over every kind of token it may be handed     *)
(*   SpecAfter verify_token after the credential or the agent changed      *)
(*   SpecMixed session and ephemeral tokens, each at the other's verifier  *)
(***************************************************************************)
EXTENDS Integers, Sequences, FiniteSets, TLC

VARIABLES
    agents,       \* agents table: agent id -> row
    credentials,  \* credentials table: credential id -> row
    versions,     \* credential_versions table: credential id -> rows, in insertion order
    audit,        \* audit_events table, in insertion order
    tokens,       \* ephemeral_tokens table: jti -> row
    usageLog,     \* token_usage_log table, in insertion order
    returned,     \* signed tokens handed to callers
    now,          \* the clock (CURRENT_TIMESTAMP, Utc::now()), in seconds
    last,         \* the last completed call: what was asked and what came back
    hist,         \* history the claims speak about (not program state)
    tasks,        \* statement-level tasks: task id -> its position and locals
    teams,        \* teams table: team id -> row
    users,        \* users table: user id -> row
    apiKeys,      \* agent_api_keys table, in insertion order
    quotas        \* agent_quotas table, in insertion order

vars == <<agents, credentials, versions, audit, tokens, usageLog, returned,
          now, last, hist, tasks,
         teams, users, apiKeys, quotas>>

----------------------------------------------------------------------------
(* Bounds of the model *)

MaxCreds == 2
MaxVersions == 3
MaxAudit == 3
MaxTokens == 2
MaxLog == 3

(* Option::None of a timestamp or an interval column *)
Null == -1

Tenants == {"t1", "t2"}
AgentIds == {"a1", "a2"}
Names == {"db"}
Secrets == {"s1", "s2"}
CredIds == 1 .. MaxCreds

(* The agents the runs start with: one live, active agent per tenant. *)
InitAgents ==
    [a \in AgentIds |->
        [team_id |-> IF a = "a1" THEN "t1" ELSE "t2", name |-> a,
         status |-> "active", deleted_at |-> Null, last_used |-> Null,
         usage_count |-> 0]]

(* teams.max_credentials of every tenant *)
TeamMaxCredentials == 2

(* teams.max_agents of a tenant *)
TeamMaxAgents == 2

(* A teams row as Team::create inserts it *)
NewTeamRow(name, owner_id, plan) ==
    [name |-> name, owner_id |-> owner_id, plan |-> plan,
     max_agents |-> TeamMaxAgents, max_credentials |-> TeamMaxCredentials,
     deleted_at |-> Null]

InitTeams == [t \in Tenants |-> NewTeamRow(t, "none", "free")]

----------------------------------------------------------------------------
(* AAD and cipher *)

(* AadGenerator::generate: agent id bytes followed by credential id bytes *)
AadGenerate(agent_id, credential_id) == <<agent_id, credential_id>>

(* EncryptionService::encrypt: the blob authenticates plaintext and AAD *)
Encrypt(plaintext, aad) == [pt |-> plaintext, aad |-> aad]

DecryptUnderAnyAad(blob, aad) == [ok |-> TRUE, pt |-> blob.pt]

(* EncryptionService::decrypt: fails unless the AAD is the one encrypted under *)
Decrypt(blob, aad) ==
    IF blob.aad = aad THEN [ok |-> TRUE, pt |-> blob.pt]
                      ELSE [ok |-> FALSE, pt |-> "none"]

----------------------------------------------------------------------------
(* Rows and queries of the credential tables *)

Days(n) == n * 86400

NextRotationDueWhenDisabled(enabled, days, t) ==
    IF days # Null THEN t + Days(days) ELSE Null

(* CASE WHEN enabled THEN CURRENT_TIMESTAMP + (days || ' days')::INTERVAL
   ELSE NULL END; a NULL interval makes the sum NULL *)
NextRotationDue(enabled, days, t) ==
    IF enabled /\ days # Null THEN t + Days(days) ELSE Null

FindByIdAnyRow(creds, id) == id \in DOMAIN creds
(* Credential::find_by_id: WHERE id = $1 AND deleted_at IS NULL *)
FindById(creds, id) ==
    id \in DOMAIN creds /\ creds[id].deleted_at = Null

LiveOfAgent(creds, agent_id) ==
    {c \in DOMAIN creds : creds[c].agent_id = agent_id /\ creds[c].deleted_at = Null}

(* Credential::find_by_name: the live credentials of the agent with the name *)
FindByName(creds, agent_id, name) ==
    {c \in LiveOfAgent(creds, agent_id) : creds[c].name = name}

(* Team::check_credential_quota: live credentials joined to the agents of
   the team, counted against max_credentials *)
CheckCredentialQuota(creds, ags, team_id) ==
    Cardinality({c \in DOMAIN creds :
                    /\ creds[c].deleted_at = Null
                    /\ creds[c].agent_id \in DOMAIN ags
                    /\ ags[creds[c].agent_id].team_id = team_id})
        < TeamMaxCredentials

(* Uuid::new_v4: an id no row has *)
NewCredentialId(creds) == Cardinality(DOMAIN creds) + 1

(* SELECT COUNT FROM credential_versions WHERE credential_id = $1 *)
CountVersions(rows) == Len(rows)

NewVersionWrong(count) == count
(* let new_version = count.0 as i32 + 1 *)
NewVersion(count) == count + 1

(* The rows WHERE credential_id = $1 AND status = 'active' *)
ActiveRows(rows) == {i \in DOMAIN rows : rows[i].status = "active"}

(* SET status = 'superseded', expired_at = CURRENT_TIMESTAMP on the rows the
   statement reaches *)
SupersedeRows(rows, ids, t) ==
    [i \in DOMAIN rows |->
        IF i \in ids
        THEN [rows[i] EXCEPT !.status = "superseded", !.expired_at = t]
        ELSE rows[i]]

(* UPDATE credential_versions SET status = 'superseded', expired_at = now
   WHERE credential_id = $1 AND status = 'active' *)
SupersedeActive(rows, t) == SupersedeRows(rows, ActiveRows(rows), t)

(* INSERT INTO credential_versions (credential_id, version, encrypted_value,
   status) VALUES ($1, $2, $3, 'active') *)
InsertVersion(rows, version, encrypted_value) ==
    Append(rows, [version |-> version, status |-> "active",
                  encrypted_value |-> encrypted_value, expired_at |-> Null])

(* UPDATE credentials SET encrypted_value = $2, last_rotated = now,
   next_rotation_due = CASE WHEN rotation_enabled ... WHERE id = $1 *)
UpdateRotated(row, encrypted_value, t) ==
    [row EXCEPT !.encrypted_value = encrypted_value,
                !.last_rotated = t,
                !.next_rotation_due =
                    NextRotationDue(row.rotation_enabled, row.rotation_interval_days, t)]

(* Credential::rotate, the rows of the version table after the transaction *)
RotateVersions(rows, encrypted_value, t) ==
    InsertVersion(SupersedeActive(rows, t), NewVersion(CountVersions(rows)),
                  encrypted_value)

(* Credential::update builds its statement from the fields supplied. With an
   interval supplied, CASE WHEN reads the parameter before the interval's:
   rotation_enabled when that is supplied, else the description or the id,
   which is no boolean, and the store refuses the statement. *)
UpdateStatementOk(rotation_enabled, rotation_interval_days) ==
    rotation_interval_days = Null \/ rotation_enabled # "None"

(* Some(true) of an Option<bool> written "None", "true" or "false" *)
OptBool(o) == o = "true"

(* Credential::update, the row after the statement *)
UpdateRow(row, description, rotation_enabled, rotation_interval_days, t) ==
    LET r1 == IF description # "None" THEN [row EXCEPT !.description = description]
              ELSE row
        r2 == IF rotation_enabled # "None"
              THEN [r1 EXCEPT !.rotation_enabled = OptBool(rotation_enabled)]
              ELSE r1
    IN  IF rotation_interval_days # Null
        THEN [r2 EXCEPT !.rotation_interval_days = rotation_interval_days,
                        !.next_rotation_due =
                            NextRotationDue(OptBool(rotation_enabled),
                                            rotation_interval_days, t)]
        ELSE IF rotation_enabled = "false"
             THEN [r2 EXCEPT !.next_rotation_due = Null]
             ELSE r2

(* log_audit_event: one row appended to audit_events *)
LogAuditEventOverLast(log, team_id, event_type, resource_id) ==
    IF log = <<>> THEN <<>>
    ELSE [log EXCEPT ![Len(log)] = [team_id |-> team_id, event_type |-> event_type,
                                    resource_id |-> resource_id]]

LogAuditEvent(log, team_id, event_type, resource_id) ==
    Append(log, [team_id |-> team_id, event_type |-> event_type,
                 resource_id |-> resource_id])

(* The record of a completed call *)
(* The record of a completed call: what was asked, the result, and what the
   response carried (a secret, credentials, version summaries, a token) *)
Call(op, team, agent, cred, result) ==
    [op |-> op, team |-> team, agent |-> agent, cred |-> cred,
     result |-> result, secret |-> "none", listed |-> <<>>, summaries |-> <<>>,
     jti |-> 0, sig |-> "none", count |-> 0, at |-> now,
     message |-> "none", presented |-> "none", minted |-> {}, user |-> 0]

NoCall == [Call("none", "none", "none", 0, "none") EXCEPT !.at = 0]

----------------------------------------------------------------------------
(* The credential service, one handler per step *)

(* The frame of the credential handlers *)
TokenTablesUnchanged ==
    UNCHANGED <<agents, tokens, usageLog, returned, tasks, teams, users, apiKeys, quotas>>

(* Credential::create: the credential row and its version 1, in one
   transaction *)
NewCredentialRow(agent_id, team_id, name, description, encrypted_value, rotation_enabled, rotation_interval_days, t) ==
    [agent_id |-> agent_id, team_id |-> team_id, name |-> name,
     description |-> description, encrypted_value |-> encrypted_value,
     is_active |-> TRUE, last_accessed |-> Null,
     rotation_enabled |-> rotation_enabled,
     rotation_interval_days |-> rotation_interval_days,
     last_rotated |-> Null,
     next_rotation_due |-> NextRotationDue(rotation_enabled, rotation_interval_days, t),
     deleted_at |-> Null]

CredentialNameFree(creds, agent_id, name) == FALSE
(* The unique index on the live credentials' (agent_id, name): the INSERT of
   Credential::create fails on it and the error is mapped to Conflict *)
CredentialNameTaken(creds, agent_id, name) == FindByName(creds, agent_id, name) # {}

(* CredentialService::create_credential *)
CreateCredential(team_id, agent_id, name, secret, rotation_enabled, rotation_interval_days, fault) ==
    LET id == NewCredentialId(credentials)
        encrypted_value == Encrypt(secret, AadGenerate(agent_id, id))
        created ==
            IF secret = "" THEN "ValidationError"
            ELSE IF ~CheckCredentialQuota(credentials, agents, team_id) THEN "Conflict"
            ELSE IF CredentialNameTaken(credentials, agent_id, name) THEN "Conflict"
            ELSE IF fault = "create" THEN "DatabaseError"
            ELSE "Ok"
        result == IF created = "Ok" /\ fault = "audit" THEN "DatabaseError" ELSE created
    IN  /\ id \in CredIds
        /\ Len(audit) < MaxAudit
        /\ IF created = "Ok"
           THEN /\ credentials' = credentials @@
                      (id :> NewCredentialRow(agent_id, team_id, name, "None",
                                 encrypted_value, OptBool(rotation_enabled),
                                 rotation_interval_days, now))
                /\ versions' = versions @@
                      (id :> InsertVersion(<<>>, 1, encrypted_value))
                /\ audit' = IF result = "Ok"
                            THEN LogAuditEvent(audit, team_id, "credential.create", id)
                            ELSE audit
                /\ hist' = [hist EXCEPT !.rotations = hist.rotations @@ (id :> 0)]
           ELSE UNCHANGED <<credentials, versions, audit, hist>>
        /\ last' = Call("create", team_id, agent_id,
                        IF result = "Ok" THEN id ELSE 0, result)
        /\ UNCHANGED now
        /\ TokenTablesUnchanged

AccessWithoutTenantCheck(team_id, credential_id) ==
    IF ~FindById(credentials, credential_id) THEN "NotFound" ELSE "Ok"

(* The ownership check of the handlers addressed by credential id *)
Access(team_id, credential_id) ==
    IF ~FindById(credentials, credential_id) THEN "NotFound"
    ELSE IF credentials[credential_id].team_id # team_id THEN "Forbidden"
    ELSE "Ok"

(* Credential::update_last_accessed *)
UpdateLastAccessed(creds, id, t) ==
    [creds EXCEPT ![id].last_accessed = t]

(* CredentialService::get_credential *)
GetCredential(team_id, credential_id) ==
    LET result == Access(team_id, credential_id)
    IN  /\ Len(audit) < MaxAudit
        /\ IF result = "Ok"
           THEN /\ credentials' = UpdateLastAccessed(credentials, credential_id, now)
                /\ audit' = LogAuditEvent(audit, team_id, "credential.read",
                                          credential_id)
           ELSE UNCHANGED <<credentials, audit>>
        /\ last' = [Call("get", team_id, "none", credential_id, result)
                        EXCEPT !.listed = IF result = "Ok" THEN <<credential_id>>
                                          ELSE <<>>]
        /\ UNCHANGED <<versions, now, hist>>
        /\ TokenTablesUnchanged

(* CredentialService::decrypt_credential *)
DecryptCredential(team_id, credential_id) ==
    LET access == Access(team_id, credential_id)
        plain == Decrypt(credentials[credential_id].encrypted_value,
                         AadGenerate(credentials[credential_id].agent_id,
                                     credential_id))
        result == IF access # "Ok" THEN access
                  ELSE IF ~plain.ok THEN "InternalError"
                  ELSE "Ok"
    IN  /\ Len(audit) < MaxAudit
        /\ IF result = "Ok"
           THEN /\ credentials' = UpdateLastAccessed(credentials, credential_id, now)
                /\ audit' = LogAuditEvent(audit, team_id, "credential.decrypt",
                                          credential_id)
           ELSE UNCHANGED <<credentials, audit>>
        /\ last' = [Call("decrypt", team_id, "none", credential_id, result)
                        EXCEPT !.secret = IF result = "Ok" THEN plain.pt ELSE "none",
                               !.listed = IF result = "Ok" THEN <<credential_id>>
                                          ELSE <<>>]
        /\ UNCHANGED <<versions, now, hist>>
        /\ TokenTablesUnchanged

(* ORDER BY created_at DESC: ids are handed out in creation order *)
RECURSIVE NewestFirst(_)
NewestFirst(S) ==
    IF S = {} THEN <<>>
    ELSE LET m == CHOOSE x \in S : \A y \in S : y <= x
         IN  <<m>> \o NewestFirst(S \ {m})

Max(a, b) == IF a >= b THEN a ELSE b
Min(a, b) == IF a <= b THEN a ELSE b

(* Credential::find_by_agent: live rows of the agent, newest first,
   LIMIT limit OFFSET (page - 1) * limit *)
FindByAgent(creds, agent_id, page, limit) ==
    LET rows == NewestFirst(LiveOfAgent(creds, agent_id))
        offset == (page - 1) * limit
    IN  SubSeq(rows, offset + 1, Min(Len(rows), offset + limit))

(* CredentialService::list_credentials, as the list handler calls it: the
   caller's tenant is not an argument. page and limit are Null when the
   query omits them. *)
ListCredentials(team_id, agent_id, page, limit) ==
    LET p == Max(IF page = Null THEN 1 ELSE page, 1)
        l == Min(Max(IF limit = Null THEN 20 ELSE limit, 1), 100)
    IN  /\ last' = [Call("list", team_id, agent_id, 0, "Ok")
                        EXCEPT !.listed = FindByAgent(credentials, agent_id, p, l)]
        /\ UNCHANGED <<credentials, versions, audit, now, hist>>
        /\ TokenTablesUnchanged

(* Credential::rotate: one transaction over the version rows and the
   credential row *)
RotateCredentials(creds, id, encrypted_value, t) ==
    [creds EXCEPT ![id] = UpdateRotated(creds[id], encrypted_value, t)]

(* CredentialService::rotate_credential *)
RotateCredential(team_id, credential_id, new_secret) ==
    LET access == Access(team_id, credential_id)
        row == credentials[credential_id]
        encrypted_value ==
            Encrypt(new_secret, AadGenerate(row.agent_id, credential_id))
        result == IF access # "Ok" THEN access
                  ELSE IF ~row.rotation_enabled THEN "ValidationError"
                  ELSE IF new_secret = "" THEN "ValidationError"
                  ELSE "Ok"
    IN  /\ Len(audit) < MaxAudit
        /\ credential_id \in DOMAIN versions =>
               Len(versions[credential_id]) < MaxVersions
        /\ IF result = "Ok"
           THEN /\ versions' = [versions EXCEPT ![credential_id] =
                                   RotateVersions(@, encrypted_value, now)]
                /\ credentials' = RotateCredentials(credentials, credential_id,
                                                    encrypted_value, now)
                /\ audit' = LogAuditEvent(audit, team_id, "credential.rotate",
                                          credential_id)
                /\ hist' = [hist EXCEPT !.rotations[credential_id] = @ + 1]
           ELSE UNCHANGED <<credentials, versions, audit, hist>>
        /\ last' = [Call("rotate", team_id, "none", credential_id, result)
                        EXCEPT !.listed = IF result = "Ok" THEN <<credential_id>>
                                          ELSE <<>>]
        /\ UNCHANGED now
        /\ TokenTablesUnchanged

(* CredentialService::update_credential: a secret in the request is rotated
   in first, in a transaction of its own; then the metadata statement; then
   the audit event *)
UpdateCredential(team_id, credential_id, description, rotation_enabled, rotation_interval_days, secret) ==
    LET access == Access(team_id, credential_id)
        row == credentials[credential_id]
        rotates == secret # "None" /\ secret # ""
        encrypted_value ==
            Encrypt(secret, AadGenerate(row.agent_id, credential_id))
        rotated == IF rotates
                   THEN RotateCredentials(credentials, credential_id,
                                          encrypted_value, now)
                   ELSE credentials
        result == IF access # "Ok" THEN access
                  ELSE IF secret = "" THEN "ValidationError"
                  ELSE IF ~UpdateStatementOk(rotation_enabled, rotation_interval_days)
                       THEN "DatabaseError"
                  ELSE "Ok"
        committed == access = "Ok" /\ rotates
    IN  /\ Len(audit) < MaxAudit
        /\ (credential_id \in DOMAIN versions /\ secret # "None") =>
               Len(versions[credential_id]) < MaxVersions
        /\ versions' = IF committed
                       THEN [versions EXCEPT ![credential_id] =
                                RotateVersions(@, encrypted_value, now)]
                       ELSE versions
        /\ hist' = IF committed
                   THEN [hist EXCEPT !.rotations[credential_id] = @ + 1]
                   ELSE hist
        /\ credentials' =
              IF result = "Ok"
              THEN [rotated EXCEPT ![credential_id] =
                       UpdateRow(@, description, rotation_enabled,
                                 rotation_interval_days, now)]
              ELSE IF committed THEN rotated
              ELSE credentials
        /\ audit' = IF result = "Ok"
                    THEN LogAuditEvent(audit, team_id, "credential.update",
                                       credential_id)
                    ELSE audit
        /\ last' = [Call("update", team_id, "none", credential_id, result)
                        EXCEPT !.listed = IF result = "Ok" THEN <<credential_id>>
                                          ELSE <<>>]
        /\ UNCHANGED now
        /\ TokenTablesUnchanged

(* Credential::soft_delete *)
SoftDelete(creds, id, t) == [creds EXCEPT ![id].deleted_at = t]

(* CredentialService::delete_credential *)
DeleteCredential(team_id, credential_id) ==
    LET result == Access(team_id, credential_id)
    IN  /\ Len(audit) < MaxAudit
        /\ IF result = "Ok"
           THEN /\ credentials' = SoftDelete(credentials, credential_id, now)
                /\ audit' = LogAuditEvent(audit, team_id, "credential.delete",
                                          credential_id)
           ELSE UNCHANGED <<credentials, audit>>
        /\ last' = Call("delete", team_id, "none", credential_id, result)
        /\ UNCHANGED <<versions, now, hist>>
        /\ TokenTablesUnchanged

(* SELECT id, version, status, created_at FROM credential_versions
   WHERE credential_id = $1 ORDER BY version DESC *)
VersionSummaries(rows) ==
    [i \in 1 .. Len(rows) |->
        [version |-> rows[Len(rows) + 1 - i].version,
         status |-> rows[Len(rows) + 1 - i].status]]

(* CredentialService::get_versions *)
GetVersions(team_id, credential_id) ==
    LET result == Access(team_id, credential_id)
    IN  /\ last' = [Call("versions", team_id, "none", credential_id, result)
                        EXCEPT !.summaries =
                            IF result = "Ok"
                            THEN VersionSummaries(versions[credential_id])
                            ELSE <<>>]
        /\ UNCHANGED <<credentials, versions, audit, now, hist>>
        /\ TokenTablesUnchanged

(* The clock moves on to a later instant *)
ClockAdvance(t) ==
    /\ t > now
    /\ now' = t
    /\ UNCHANGED <<agents, credentials, versions, audit, tokens, usageLog,
                   returned, last, hist, tasks, teams, users, apiKeys, quotas>>

NoHist == [rotations |-> <<>>, revoked |-> {}, committed |-> {}]

InitStore ==
    /\ agents = InitAgents
    /\ credentials = <<>>
    /\ versions = <<>>
    /\ audit = <<>>
    /\ tokens = <<>>
    /\ usageLog = <<>>
    /\ returned = {}
    /\ now = 0
    /\ last = NoCall
    /\ hist = NoHist
    /\ teams = InitTeams
    /\ users = <<>>
    /\ apiKeys = <<>>
    /\ quotas = <<>>

Init ==
    /\ InitStore
    /\ tasks = <<>>

(* The instants the credential handlers run at *)
CredInstants == {0, 5}
OptBools == {"None", "true", "false"}
Intervals == {Null, 30}

(* Callers of every tenant against every agent and credential id *)
Next ==
    \/ \E t \in Tenants, a \in AgentIds, n \in Names :
            CreateCredential(t, a, n, "s1", "true", Null, "none")
    \/ \E t \in Tenants, c \in CredIds : GetCredential(t, c)
    \/ \E t \in Tenants, c \in CredIds : DecryptCredential(t, c)
    \/ \E t \in Tenants, a \in AgentIds : ListCredentials(t, a, Null, Null)
    \/ \E t \in Tenants, c \in CredIds : RotateCredential(t, c, "s2")
    \/ \E t \in Tenants, c \in CredIds, s \in {"None", "s2"} :
            UpdateCredential(t, c, "d", "None", Null, s)
    \/ \E t \in Tenants, c \in CredIds : DeleteCredential(t, c)
    \/ \E t \in Tenants, c \in CredIds : GetVersions(t, c)
    \/ \E t \in CredInstants : ClockAdvance(t)

Spec == Init /\ [][Next]_vars

(* One tenant's callers working on the version chain of its credentials:
   every shape of create, rotate and update request *)
NextVer ==
    \/ \E re \in OptBools, iv \in Intervals :
            CreateCredential("t1", "a1", "db", "s1", re, iv, "none")
    \/ \E c \in CredIds, s \in {"s2", ""} : RotateCredential("t1", c, s)
    \/ \E c \in CredIds, d \in {"None", "d"}, re \in OptBools, iv \in Intervals,
           s \in {"None", "s1"} :
            UpdateCredential("t1", c, d, re, iv, s)
    \/ \E c \in CredIds : DeleteCredential("t1", c)
    \/ \E t \in CredInstants : ClockAdvance(t)

SpecVer == Init /\ [][NextVer]_vars

----------------------------------------------------------------------------
(* The ephemeral token service, one handler per step. A handler's store
   calls run in order, each committed on its own; `fault` names the store
   call that fails (or at which the task is cancelled), "none" when all
   succeed. *)

(* EphemeralTokenService::with_ttl(.., 1): token_ttl_seconds *)
TokenTtlSeconds == 1

(* Validation::new(Algorithm::HS256): jsonwebtoken's default leeway, which
   verify_token leaves as it is *)
Leeway == 60

(* The header of an HS256 token, which is what the first 32 characters of
   every signed token are *)
TokenSignature == "eyJ0eXAiOiJKV1QiLCJhbGciOiJIUzI1"

SignedTokenOfOtherSecret(jti, credential_id, row, secret, t) ==
    [sub |-> credential_id, agent_id |-> row.agent_id, team_id |-> row.team_id,
     secret |-> "s2", exp |-> t + TokenTtlSeconds, iat |-> t, jti |-> jti,
     token_type |-> "ephemeral", sig |-> "valid"]

(* EphemeralTokenClaims signed by encode(): sig tells whether the signature
   is the service's *)
SignedToken(jti, credential_id, row, secret, t) ==
    [sub |-> credential_id, agent_id |-> row.agent_id, team_id |-> row.team_id,
     secret |-> secret, exp |-> t + TokenTtlSeconds, iat |-> t, jti |-> jti,
     token_type |-> "ephemeral", sig |-> "valid"]

(* decode() under Validation::new(HS256): the signature, then exp against
   the clock less the leeway *)
DecodeToken(token, t) ==
    IF token.sig # "valid" THEN "InvalidSignature"
    ELSE IF token.exp < t - Leeway THEN "ExpiredSignature"
    ELSE "Ok"

(* Uuid::new_v4 of a jti: one no row has *)
NewJti(rows) == Cardinality(DOMAIN rows) + 1

CreateTokenRowUnbound(rows, jti, agent_id, credential_id, team_id, expires_at) ==
    rows @@ (jti :> [agent_id |-> agent_id, credential_id |-> 0,
                     team_id |-> "none", token_signature |-> TokenSignature,
                     status |-> "expired", expires_at |-> expires_at,
                     revoked_at |-> Null])

(* EphemeralToken::create: INSERT INTO ephemeral_tokens, status by default
   'active' *)
CreateTokenRow(rows, jti, agent_id, credential_id, team_id, expires_at) ==
    rows @@ (jti :> [agent_id |-> agent_id, credential_id |-> credential_id,
                     team_id |-> team_id, token_signature |-> TokenSignature,
                     status |-> "active", expires_at |-> expires_at,
                     revoked_at |-> Null])

RevokeRowKeepsStatus(rows, jti, t) ==
    IF jti \in DOMAIN rows THEN [rows EXCEPT ![jti].revoked_at = t] ELSE rows
(* EphemeralToken::revoke: SET status = 'revoked', revoked_at = now
   WHERE jti = $1 *)
RevokeRow(rows, jti, t) ==
    IF jti \in DOMAIN rows
    THEN [rows EXCEPT ![jti].status = "revoked", ![jti].revoked_at = t]
    ELSE rows

DueWhateverStatus(rows, t) == {j \in DOMAIN rows : rows[j].expires_at < t}

(* EphemeralToken::cleanup_expired: WHERE status = 'active' AND
   expires_at < now *)
Due(rows, t) ==
    {j \in DOMAIN rows : rows[j].status = "active" /\ rows[j].expires_at < t}

CleanupExpired(rows, t) ==
    [j \in DOMAIN rows |->
        IF j \in Due(rows, t) THEN [rows[j] EXCEPT !.status = "expired"]
        ELSE rows[j]]

LogActionTwice(log, jti, agent_id, team_id, action) ==
    Append(Append(log, [jti |-> jti, agent_id |-> agent_id, team_id |-> team_id,
                        action |-> action]),
           [jti |-> jti, agent_id |-> agent_id, team_id |-> team_id,
            action |-> action])

(* TokenUsageLog::log_action *)
LogAction(log, jti, agent_id, team_id, action) ==
    Append(log, [jti |-> jti, agent_id |-> agent_id, team_id |-> team_id,
                 action |-> action])

(* Agent::update_last_used *)
UpdateLastUsed(ags, id, t) ==
    [ags EXCEPT ![id].last_used = t, ![id].usage_count = @ + 1]

(* The store calls of generate_token, in the order the handler makes them *)
GenerateCalls == <<"find_agent", "find_credential", "create", "log",
                   "last_used", "last_accessed">>
VerifyCalls == <<"find", "log">>
RevokeCalls == <<"find", "revoke", "log">>

Position(calls, call) == CHOOSE i \in DOMAIN calls : calls[i] = call

(* Whether the handler gets past `call`: no store call up to it failed *)
Passed(calls, fault, call) ==
    fault = "none" \/ Position(calls, call) < Position(calls, fault)

FaultsOf(calls) == {"none"} \cup {calls[i] : i \in DOMAIN calls}

ReturnsTokenAnyway(fault) == TRUE
(* Ok(EphemeralTokenResponse) is reached only past every `?` *)
ReturnsToken(fault) == fault = "none"

(* EphemeralTokenService::generate_token *)
GenerateToken(agent_id, credential_name, fault) ==
    LET found == FindByName(credentials, agent_id, credential_name)
        credential_id == CHOOSE c \in found : TRUE
        row == credentials[credential_id]
        plain == Decrypt(row.encrypted_value, AadGenerate(agent_id, credential_id))
        jti == NewJti(tokens)
        token == SignedToken(jti, credential_id, row, plain.pt, now)
        checks ==
            IF ~Passed(GenerateCalls, fault, "find_agent") THEN "DatabaseError"
            ELSE IF agent_id \notin DOMAIN agents \/ agents[agent_id].deleted_at # Null
                 THEN "NotFound"
            ELSE IF agents[agent_id].status # "active" THEN "Forbidden"
            ELSE IF ~Passed(GenerateCalls, fault, "find_credential")
                 THEN "DatabaseError"
            ELSE IF found = {} THEN "NotFound"
            ELSE IF ~row.is_active THEN "Forbidden"
            ELSE IF ~plain.ok THEN "InternalError"
            ELSE "Ok"
        done(call) == checks = "Ok" /\ Passed(GenerateCalls, fault, call)
        result == IF checks # "Ok" THEN checks
                  ELSE IF ReturnsToken(fault) THEN "Ok"
                  ELSE "DatabaseError"
    IN  /\ jti <= MaxTokens
        /\ done("log") => Len(usageLog) < MaxLog
        /\ tokens' = IF done("create")
                     THEN CreateTokenRow(tokens, jti, agent_id, credential_id,
                                         row.team_id, token.exp)
                     ELSE tokens
        /\ usageLog' = IF done("log")
                       THEN LogAction(usageLog, jti, agent_id, row.team_id, "issued")
                       ELSE usageLog
        /\ agents' = IF done("last_used")
                     THEN UpdateLastUsed(agents, agent_id, now)
                     ELSE agents
        /\ credentials' = IF done("last_accessed")
                          THEN UpdateLastAccessed(credentials, credential_id, now)
                          ELSE credentials
        /\ returned' = IF result = "Ok" THEN returned \cup {token} ELSE returned
        /\ last' = [Call("generate", "none", agent_id,
                         IF result = "Ok" THEN credential_id ELSE 0, result)
                        EXCEPT !.jti = IF result = "Ok" THEN jti ELSE 0]
        /\ UNCHANGED <<versions, audit, now, hist, tasks, teams, users, apiKeys, quotas>>

AdmitsUnlessExpired(status) == status # "expired"
(* verify_token refuses a row whose status is 'revoked' or 'expired' *)
RowAdmits(status) == status # "revoked" /\ status # "expired"

(* EphemeralTokenService::verify_token *)
VerifyToken(token, fault) ==
    LET decoded == DecodeToken(token, now)
        checks ==
            IF decoded # "Ok" THEN "Unauthorized"
            ELSE IF token.token_type # "ephemeral" THEN "Unauthorized"
            ELSE IF ~Passed(VerifyCalls, fault, "find") THEN "DatabaseError"
            ELSE IF token.jti \notin DOMAIN tokens THEN "Unauthorized"
            ELSE IF ~RowAdmits(tokens[token.jti].status) THEN "Unauthorized"
            ELSE "Ok"
        result == IF checks # "Ok" THEN checks
                  ELSE IF Passed(VerifyCalls, fault, "log") THEN "Ok"
                  ELSE "DatabaseError"
    IN  /\ result = "Ok" => Len(usageLog) < MaxLog
        /\ usageLog' = IF result = "Ok"
                       THEN LogAction(usageLog, token.jti, token.agent_id,
                                      token.team_id, "used")
                       ELSE usageLog
        /\ last' = [Call("verify", "none", token.agent_id, token.sub, result)
                        EXCEPT !.jti = token.jti, !.sig = token.sig,
                               !.secret = IF result = "Ok" THEN token.secret
                                          ELSE "none"]
        /\ UNCHANGED <<agents, credentials, versions, audit, tokens, returned,
                       now, hist, tasks, teams, users, apiKeys, quotas>>

NeverAlreadyRevoked(status) == FALSE
(* revoke_token returns early, Ok, on a row whose status is 'revoked' *)
AlreadyRevoked(status) == status = "revoked"

(* EphemeralTokenService::revoke_token *)
RevokeToken(jti, fault) ==
    LET checks ==
            IF ~Passed(RevokeCalls, fault, "find") THEN "DatabaseError"
            ELSE IF jti \notin DOMAIN tokens THEN "NotFound"
            ELSE IF AlreadyRevoked(tokens[jti].status) THEN "Idempotent"
            ELSE "Ok"
        done(call) == checks = "Ok" /\ Passed(RevokeCalls, fault, call)
        result == IF checks = "Idempotent" THEN "Ok"
                  ELSE IF checks # "Ok" THEN checks
                  ELSE IF fault = "none" THEN "Ok"
                  ELSE "DatabaseError"
    IN  /\ done("log") => Len(usageLog) < MaxLog
        /\ tokens' = IF done("revoke") THEN RevokeRow(tokens, jti, now) ELSE tokens
        /\ usageLog' = IF done("log")
                       THEN LogAction(usageLog, jti, tokens[jti].agent_id,
                                      tokens[jti].team_id, "revoked")
                       ELSE usageLog
        /\ hist' = [hist EXCEPT
                       !.committed = IF done("revoke") THEN @ \cup {jti} ELSE @,
                       !.revoked = IF result = "Ok" THEN @ \cup {jti} ELSE @]
        /\ last' = [Call("revoke", "none", "none", 0, result) EXCEPT !.jti = jti]
        /\ UNCHANGED <<agents, credentials, versions, audit, returned, now, tasks,
                       teams, users, apiKeys, quotas>>

(* EphemeralTokenService::cleanup_expired_tokens *)
CleanupExpiredTokens ==
    /\ tokens' = CleanupExpired(tokens, now)
    /\ last' = [Call("sweep", "none", "none", 0, "Ok")
                    EXCEPT !.count = Cardinality(Due(tokens, now))]
    /\ UNCHANGED <<agents, credentials, versions, audit, usageLog, returned,
                   now, hist, tasks, teams, users, apiKeys, quotas>>

(* The tokens a caller can present: the ones handed out, and the same with
   the payload or signature altered *)
Presentable == returned \cup {[t EXCEPT !.sig = "forged"] : t \in returned}

(* The token runs start with tenant t1's credential "db" of agent a1, as
   create_credential leaves it *)
InitTokStore ==
    /\ agents = InitAgents
    /\ credentials = (1 :> NewCredentialRow("a1", "t1", "db", "None",
                             Encrypt("s1", AadGenerate("a1", 1)), TRUE, Null, 0))
    /\ versions = (1 :> InsertVersion(<<>>, 1, Encrypt("s1", AadGenerate("a1", 1))))
    /\ audit = LogAuditEvent(<<>>, "t1", "credential.create", 1)
    /\ tokens = <<>>
    /\ usageLog = <<>>
    /\ returned = {}
    /\ now = 0
    /\ last = NoCall
    /\ hist = [NoHist EXCEPT !.rotations = (1 :> 0)]
    /\ teams = InitTeams
    /\ users = <<>>
    /\ apiKeys = <<>>
    /\ quotas = <<>>

InitTok == InitTokStore /\ tasks = <<>>

(* The instants the token handlers run at: issue, past exp, past exp and
   leeway *)
TokInstants == {0, 2, 62}
Jtis == 1 .. (MaxTokens + 1)

(* Every store call succeeds *)
NextTok ==
    \/ \E a \in AgentIds, n \in Names : GenerateToken(a, n, "none")
    \/ \E t \in Presentable : VerifyToken(t, "none")
    \/ \E j \in Jtis : RevokeToken(j, "none")
    \/ CleanupExpiredTokens
    \/ RotateCredential("t1", 1, "s2")
    \/ \E t \in TokInstants : ClockAdvance(t)

SpecTok == InitTok /\ [][NextTok]_vars

(* Any store call of generate_token may fail, or the task be cancelled
   there *)
NextFault ==
    \/ \E f \in FaultsOf(GenerateCalls) : GenerateToken("a1", "db", f)
    \/ \E t \in returned : VerifyToken(t, "none")
    \/ \E j \in DOMAIN tokens : RevokeToken(j, "none")
    \/ CleanupExpiredTokens
    \/ \E t \in TokInstants : ClockAdvance(t)

SpecFault == InitTok /\ [][NextFault]_vars

----------------------------------------------------------------------------
(* The token handlers as concurrent requests. Each store call is one
   statement on the pool, committed on its own, so the requests interleave
   statement by statement. tasks holds one request of each handler with the
   position it has reached; revoke and verify requests follow one another,
   the generate request runs once. *)

NoToken ==
    [sub |-> 0, agent_id |-> "none", team_id |-> "none", secret |-> "none",
     exp |-> 0, iat |-> 0, jti |-> 0, token_type |-> "none", sig |-> "none"]

IdleTask ==
    [pc |-> "idle", token |-> NoToken, seen |-> "none", result |-> "none",
     looked |-> FALSE, after |-> FALSE, startedAfter |-> FALSE]

Free(task) == task.pc \in {"idle", "done"}

Finish(task, result) == [task EXCEPT !.pc = "done", !.result = result]

RaceFrame == UNCHANGED <<versions, audit, now, last, teams, users, apiKeys, quotas>>

(* generate_token up to the encoded token: steps 1 to 6 *)
GenerateEncode(agent_id, credential_name) ==
    LET found == FindByName(credentials, agent_id, credential_name)
        credential_id == CHOOSE c \in found : TRUE
        row == credentials[credential_id]
        plain == Decrypt(row.encrypted_value, AadGenerate(agent_id, credential_id))
        jti == NewJti(tokens)
    IN  /\ tasks.g.pc = "idle"
        /\ jti <= MaxTokens
        /\ tasks' = [tasks EXCEPT !.g =
                IF agent_id \notin DOMAIN agents \/ agents[agent_id].deleted_at # Null
                THEN Finish(IdleTask, "NotFound")
                ELSE IF agents[agent_id].status # "active"
                THEN Finish(IdleTask, "Forbidden")
                ELSE IF found = {} THEN Finish(IdleTask, "NotFound")
                ELSE IF ~row.is_active THEN Finish(IdleTask, "Forbidden")
                ELSE IF ~plain.ok THEN Finish(IdleTask, "InternalError")
                ELSE [IdleTask EXCEPT !.pc = "create",
                        !.token = SignedToken(jti, credential_id, row, plain.pt, now)]]
        /\ RaceFrame
        /\ UNCHANGED <<agents, credentials, tokens, usageLog, returned, hist>>

(* generate_token step 7: EphemeralToken::create *)
GenerateCreate ==
    LET token == tasks.g.token
    IN  /\ tasks.g.pc = "create"
        /\ token.jti \notin DOMAIN tokens
        /\ tokens' = CreateTokenRow(tokens, token.jti, token.agent_id, token.sub,
                                    token.team_id, token.exp)
        /\ tasks' = [tasks EXCEPT !.g.pc = "log"]
        /\ RaceFrame
        /\ UNCHANGED <<agents, credentials, usageLog, returned, hist>>

(* generate_token step 8: TokenUsageLog::log_action "issued" *)
GenerateLog ==
    LET token == tasks.g.token
    IN  /\ tasks.g.pc = "log"
        /\ Len(usageLog) < MaxLog
        /\ usageLog' = LogAction(usageLog, token.jti, token.agent_id,
                                 token.team_id, "issued")
        /\ tasks' = [tasks EXCEPT !.g.pc = "last_used"]
        /\ RaceFrame
        /\ UNCHANGED <<agents, credentials, tokens, returned, hist>>

(* generate_token steps 9, 10 and the response *)
GenerateReturn ==
    LET token == tasks.g.token
    IN  /\ tasks.g.pc = "last_used"
        /\ agents' = UpdateLastUsed(agents, token.agent_id, now)
        /\ credentials' = UpdateLastAccessed(credentials, token.sub, now)
        /\ returned' = returned \cup {token}
        /\ tasks' = [tasks EXCEPT !.g = Finish(@, "Ok")]
        /\ RaceFrame
        /\ UNCHANGED <<tokens, usageLog, hist>>

(* revoke_token steps 1 and 2: find_by_jti and the early returns *)
RevokeFind(jti) ==
    /\ Free(tasks.r)
    /\ tasks' = [tasks EXCEPT !.r =
            IF jti \notin DOMAIN tokens THEN Finish(IdleTask, "NotFound")
            ELSE IF AlreadyRevoked(tokens[jti].status)
            THEN [Finish(IdleTask, "Ok") EXCEPT !.token.jti = jti]
            ELSE [IdleTask EXCEPT !.pc = "revoke", !.token.jti = jti,
                    !.token.agent_id = tokens[jti].agent_id,
                    !.token.team_id = tokens[jti].team_id,
                    !.seen = tokens[jti].status]]
    /\ hist' = IF jti \in DOMAIN tokens /\ AlreadyRevoked(tokens[jti].status)
               THEN [hist EXCEPT !.revoked = @ \cup {jti}]
               ELSE hist
    /\ RaceFrame
    /\ UNCHANGED <<agents, credentials, tokens, usageLog, returned>>

(* revoke_token step 3: EphemeralToken::revoke, committed when it returns *)
RevokeUpdate ==
    LET jti == tasks.r.token.jti
    IN  /\ tasks.r.pc = "revoke"
        /\ tokens' = RevokeRow(tokens, jti, now)
        /\ hist' = [hist EXCEPT !.committed = @ \cup {jti}]
        /\ tasks' = [tasks EXCEPT !.r.pc = "log"]
        /\ RaceFrame
        /\ UNCHANGED <<agents, credentials, usageLog, returned>>

(* revoke_token step 4 and the response *)
RevokeLog ==
    LET token == tasks.r.token
    IN  /\ tasks.r.pc = "log"
        /\ Len(usageLog) < MaxLog
        /\ usageLog' = LogAction(usageLog, token.jti, token.agent_id,
                                 token.team_id, "revoked")
        /\ hist' = [hist EXCEPT !.revoked = @ \cup {token.jti}]
        /\ tasks' = [tasks EXCEPT !.r = Finish(@, "Ok")]
        /\ RaceFrame
        /\ UNCHANGED <<agents, credentials, tokens, returned>>

(* verify_token steps 1 and 2: decode under the validation, token_type *)
VerifyDecode(token) ==
    /\ Free(tasks.v)
    /\ tasks' = [tasks EXCEPT !.v =
            LET started == [IdleTask EXCEPT !.token = token,
                              !.startedAfter = token.jti \in hist.committed]
            IN  IF DecodeToken(token, now) # "Ok" THEN Finish(started, "Unauthorized")
                ELSE IF token.token_type # "ephemeral"
                THEN Finish(started, "Unauthorized")
                ELSE [started EXCEPT !.pc = "lookup"]]
    /\ RaceFrame
    /\ UNCHANGED <<agents, credentials, tokens, usageLog, returned, hist>>

(* verify_token step 3: find_by_jti and the two status checks *)
VerifyLookup ==
    LET jti == tasks.v.token.jti
        seen == IF jti \in DOMAIN tokens THEN tokens[jti].status ELSE "missing"
        task == [tasks.v EXCEPT !.looked = TRUE, !.seen = seen,
                                !.after = jti \in hist.committed]
    IN  /\ tasks.v.pc = "lookup"
        /\ tasks' = [tasks EXCEPT !.v =
                IF seen = "missing" \/ ~RowAdmits(seen)
                THEN Finish(task, "Unauthorized")
                ELSE [task EXCEPT !.pc = "log"]]
        /\ RaceFrame
        /\ UNCHANGED <<agents, credentials, tokens, usageLog, returned, hist>>

(* verify_token step 5 and the response *)
VerifyLog ==
    LET token == tasks.v.token
    IN  /\ tasks.v.pc = "log"
        /\ Len(usageLog) < MaxLog
        /\ usageLog' = LogAction(usageLog, token.jti, token.agent_id,
                                 token.team_id, "used")
        /\ tasks' = [tasks EXCEPT !.v = Finish(@, "Ok")]
        /\ RaceFrame
        /\ UNCHANGED <<agents, credentials, tokens, returned, hist>>

InitRace ==
    /\ InitTokStore
    /\ tasks = [g |-> IdleTask, r |-> IdleTask, v |-> IdleTask]

NextRace ==
    \/ GenerateEncode("a1", "db")
    \/ GenerateCreate
    \/ GenerateLog
    \/ GenerateReturn
    \/ \E j \in DOMAIN tokens : RevokeFind(j)
    \/ RevokeUpdate
    \/ RevokeLog
    \/ \E t \in Presentable : VerifyDecode(t)
    \/ VerifyLookup
    \/ VerifyLog
    \/ CleanupExpiredTokens
    \/ \E t \in TokInstants : ClockAdvance(t)

SpecRace == InitRace /\ [][NextRace]_vars

----------------------------------------------------------------------------
(* Credential::rotate as concurrent transactions on one credential. The
   pool's connections run at the store's default isolation, READ COMMITTED:
   a statement sees what was committed when it starts and its own
   transaction's writes; an UPDATE that reaches a row another open
   transaction has updated waits for that transaction and then looks at the
   row again. tasks holds two requests with the statement each has reached
   and the writes of its open transaction. *)

TxIds == {"x", "y"}

(* The unique indices of the store are those the specification lists: user
   email, tenant name, agent name, credential name, jti. None is on
   (credential_id, version). *)
VersionUniqueIndex == FALSE

IdleTx ==
    [pc |-> "idle", credential_id |-> 0, team_id |-> "none",
     encrypted_value |-> Encrypt("none", <<>>), started |-> 0, count |-> 0,
     superseded |-> {}, waiting |-> {}, result |-> "none"]

InTx(task) ==
    task.pc \in {"count", "supersede", "blocked", "insert", "update", "commit"}

(* Row i of the version table carries the row lock of another open
   transaction *)
Locked(tx, i) ==
    \E u \in TxIds \ {tx} : InTx(tasks[u]) /\ i \in tasks[u].superseded

(* Another open transaction has inserted a row with this version number *)
InsertedByOther(tx, credential_id, version) ==
    \E u \in TxIds \ {tx} :
        /\ tasks[u].pc \in {"update", "commit"}
        /\ tasks[u].credential_id = credential_id
        /\ NewVersion(tasks[u].count) = version

RotFrame ==
    UNCHANGED <<agents, tokens, usageLog, returned, now, last, teams, users, apiKeys, quotas>>

(* rotate_credential up to pool.begin() in Credential::rotate *)
RotateBegin(tx, team_id, credential_id, new_secret) ==
    LET access == Access(team_id, credential_id)
        row == credentials[credential_id]
        checks == IF access # "Ok" THEN access
                  ELSE IF ~row.rotation_enabled THEN "ValidationError"
                  ELSE IF new_secret = "" THEN "ValidationError"
                  ELSE "Ok"
        opened == Cardinality({u \in TxIds : InTx(tasks[u])})
    IN  /\ ~InTx(tasks[tx]) /\ tasks[tx].pc # "audit"
        /\ checks = "Ok" => Len(versions[credential_id]) + opened < MaxVersions
        /\ tasks' = [tasks EXCEPT ![tx] =
                IF checks # "Ok" THEN [IdleTx EXCEPT !.pc = "done", !.result = checks]
                ELSE [IdleTx EXCEPT !.pc = "count",
                        !.credential_id = credential_id, !.team_id = team_id,
                        !.encrypted_value =
                            Encrypt(new_secret, AadGenerate(row.agent_id, credential_id)),
                        !.started = now]]
        /\ RotFrame
        /\ UNCHANGED <<credentials, versions, audit, hist>>

(* SELECT COUNT FROM credential_versions WHERE credential_id = $1 *)
RotateCount(tx) ==
    /\ tasks[tx].pc = "count"
    /\ tasks' = [tasks EXCEPT ![tx].pc = "supersede",
                    ![tx].count = CountVersions(versions[tasks[tx].credential_id])]
    /\ RotFrame
    /\ UNCHANGED <<credentials, versions, audit, hist>>

(* UPDATE credential_versions SET status = 'superseded' ... AND status =
   'active': the rows committed active when the statement starts; it updates
   those it can lock and waits for the others *)
RotateSupersede(tx) ==
    LET targets == ActiveRows(versions[tasks[tx].credential_id])
        free == {i \in targets : ~Locked(tx, i)}
    IN  /\ tasks[tx].pc = "supersede"
        /\ tasks' = [tasks EXCEPT ![tx].superseded = free,
                        ![tx].waiting = targets \ free,
                        ![tx].pc = IF targets = free THEN "insert" ELSE "blocked"]
        /\ RotFrame
        /\ UNCHANGED <<credentials, versions, audit, hist>>

(* The waiting UPDATE once the lock holders have ended: it evaluates its
   WHERE on the rows as now committed and updates those still active *)
RotateResume(tx) ==
    LET rows == versions[tasks[tx].credential_id]
    IN  /\ tasks[tx].pc = "blocked"
        /\ \A i \in tasks[tx].waiting : ~Locked(tx, i)
        /\ tasks' = [tasks EXCEPT
                        ![tx].superseded = @ \cup (tasks[tx].waiting \cap ActiveRows(rows)),
                        ![tx].waiting = {},
                        ![tx].pc = "insert"]
        /\ RotFrame
        /\ UNCHANGED <<credentials, versions, audit, hist>>

(* INSERT INTO credential_versions ... VALUES ($1, new_version, $3, 'active');
   under a unique index a committed duplicate fails the statement and the
   transaction, an uncommitted one makes it wait *)
RotateInsert(tx) ==
    LET task == tasks[tx]
        version == NewVersion(task.count)
        duplicate == version \in {versions[task.credential_id][i].version :
                                    i \in DOMAIN versions[task.credential_id]}
    IN  /\ task.pc = "insert"
        /\ VersionUniqueIndex => ~InsertedByOther(tx, task.credential_id, version)
        /\ tasks' = [tasks EXCEPT ![tx] =
                IF VersionUniqueIndex /\ duplicate
                THEN [IdleTx EXCEPT !.pc = "done", !.result = "DatabaseError"]
                ELSE [task EXCEPT !.pc = "update"]]
        /\ RotFrame
        /\ UNCHANGED <<credentials, versions, audit, hist>>

(* UPDATE credentials SET encrypted_value = $2, ... WHERE id = $1, which
   waits while another open transaction has updated the row *)
RotateUpdate(tx) ==
    /\ tasks[tx].pc = "update"
    /\ \A u \in TxIds \ {tx} :
            ~(tasks[u].pc = "commit" /\ tasks[u].credential_id = tasks[tx].credential_id)
    /\ tasks' = [tasks EXCEPT ![tx].pc = "commit"]
    /\ RotFrame
    /\ UNCHANGED <<credentials, versions, audit, hist>>

(* tx.commit(): the transaction's writes become the committed rows.
   CURRENT_TIMESTAMP is the instant the transaction started *)
RotateCommit(tx) ==
    LET task == tasks[tx]
        c == task.credential_id
    IN  /\ task.pc = "commit"
        /\ versions' = [versions EXCEPT ![c] =
                InsertVersion(SupersedeRows(@, task.superseded, task.started),
                              NewVersion(task.count), task.encrypted_value)]
        /\ credentials' = RotateCredentials(credentials, c, task.encrypted_value,
                                            task.started)
        /\ hist' = [hist EXCEPT !.rotations[c] = @ + 1]
        /\ tasks' = [tasks EXCEPT ![tx].pc = "audit", ![tx].superseded = {}]
        /\ RotFrame
        /\ UNCHANGED audit

(* rotate_credential after Credential::rotate: log_audit_event and the
   response *)
RotateAudit(tx) ==
    LET task == tasks[tx]
    IN  /\ task.pc = "audit"
        /\ Len(audit) < MaxAudit
        /\ audit' = LogAuditEvent(audit, task.team_id, "credential.rotate",
                                  task.credential_id)
        /\ tasks' = [tasks EXCEPT ![tx].pc = "done", ![tx].result = "Ok"]
        /\ RotFrame
        /\ UNCHANGED <<credentials, versions, hist>>

InitRot ==
    /\ InitTokStore
    /\ tasks = [tx \in TxIds |-> IdleTx]

NextRot ==
    \/ \E tx \in TxIds, t \in Tenants, s \in Secrets : RotateBegin(tx, t, 1, s)
    \/ \E tx \in TxIds : RotateCount(tx)
    \/ \E tx \in TxIds : RotateSupersede(tx)
    \/ \E tx \in TxIds : RotateResume(tx)
    \/ \E tx \in TxIds : RotateInsert(tx)
    \/ \E tx \in TxIds : RotateUpdate(tx)
    \/ \E tx \in TxIds : RotateCommit(tx)
    \/ \E tx \in TxIds : RotateAudit(tx)
    \/ \E t \in CredInstants : ClockAdvance(t)

SpecRot == InitRot /\ [][NextRot]_vars

----------------------------------------------------------------------------
(* Session tokens: JwtService and the places that verify them. A token is
   its JSON payload, the fields the claims struct serialises, and whether
   its signature is the service's. *)

MaxJwts == 3

UserIds == {"u1", "u2"}
Roles == {"admin", "viewer"}

REFRESH_TOKEN_DAYS == 7
ACCESS_TOKEN_HOURS == 1

Hours(n) == n * 3600

(* JwtService::new: issuer *)
Issuer == "agentkey"

(* The fields of struct Claims and of struct RefreshClaims *)
ClaimsFields == {"sub", "team_id", "role", "exp", "iat", "nbf", "iss"}
RefreshClaimsFields == ClaimsFields \cup {"token_type"}

CreateTokenWithEphemeralClaims(user_id, team_id, role, expiry_hours, t) ==
    [payload |-> [sub |-> 1, team_id |-> team_id, role |-> role,
                  exp |-> t + Hours(expiry_hours), iat |-> t, nbf |-> t,
                  iss |-> Issuer, agent_id |-> "a1", secret |-> "s1",
                  credential_type |-> "generic", credential_name |-> "db",
                  jti |-> 1, token_type |-> "ephemeral"],
     sig |-> "valid"]

(* JwtService::create_token_with_expiry *)
CreateTokenWithExpiry(user_id, team_id, role, expiry_hours, t) ==
    [payload |-> [sub |-> user_id, team_id |-> team_id, role |-> role,
                  exp |-> t + Hours(expiry_hours), iat |-> t, nbf |-> t,
                  iss |-> Issuer],
     sig |-> "valid"]

(* JwtService::create_refresh_token *)
CreateRefreshToken(user_id, team_id, role, days, t) ==
    [payload |-> [sub |-> user_id, team_id |-> team_id, role |-> role,
                  exp |-> t + Days(days), iat |-> t, nbf |-> t,
                  iss |-> Issuer, token_type |-> "refresh"],
     sig |-> "valid"]

(* decode::<T> under Validation::default() with set_issuer: the signature,
   the payload deserialised into T (every field of T present, others
   ignored), then exp less the leeway and iss *)
DecodeJwt(fields, token, t) ==
    IF token.sig # "valid" THEN "InvalidSignature"
    ELSE IF ~(fields \subseteq DOMAIN token.payload) THEN "Json"
    ELSE IF token.payload.exp < t - Leeway THEN "ExpiredSignature"
    ELSE IF token.payload.iss # Issuer THEN "InvalidIssuer"
    ELSE "Ok"

(* JwtService::verify_token *)
JwtVerifyToken(token, t) == DecodeJwt(ClaimsFields, token, t)

VerifyRefreshTokenAsAccess(token, t) == JwtVerifyToken(token, t)
(* JwtService::verify_refresh_token *)
VerifyRefreshToken(token, t) ==
    LET decoded == DecodeJwt(RefreshClaimsFields, token, t)
    IN  IF decoded # "Ok" THEN decoded
        ELSE IF token.payload.token_type # "refresh" THEN "InvalidToken"
        ELSE "Ok"

(* What the caller presents: a token minted as access or as refresh *)
Kind(token) ==
    IF "token_type" \in DOMAIN token.payload THEN "refresh" ELSE "access"

SessionFrame ==
    UNCHANGED <<agents, credentials, versions, audit, tokens, usageLog, now, hist,
                tasks, teams, users, apiKeys, quotas>>

(* JwtService::create_token *)
JwtCreateToken(user_id, team_id, role) ==
    LET token == CreateTokenWithExpiry(user_id, team_id, role, ACCESS_TOKEN_HOURS, now)
    IN  /\ Cardinality(returned) < MaxJwts
        /\ returned' = returned \cup {token}
        /\ last' = [Call("create_token", team_id, "none", 0, "Ok")
                        EXCEPT !.minted = {token}]
        /\ SessionFrame

(* JwtService::create_refresh_token *)
JwtCreateRefreshToken(user_id, team_id, role) ==
    LET token == CreateRefreshToken(user_id, team_id, role, REFRESH_TOKEN_DAYS, now)
    IN  /\ Cardinality(returned) < MaxJwts
        /\ returned' = returned \cup {token}
        /\ last' = [Call("create_refresh_token", team_id, "none", 0, "Ok")
                        EXCEPT !.minted = {token}]
        /\ SessionFrame

(* A call of JwtService::verify_token *)
JwtVerify(token) ==
    /\ last' = [Call("verify_token", token.payload.team_id, "none", 0,
                     JwtVerifyToken(token, now))
                    EXCEPT !.presented = Kind(token), !.sig = token.sig]
    /\ UNCHANGED returned
    /\ SessionFrame

(* A call of JwtService::verify_refresh_token *)
JwtVerifyRefresh(token) ==
    /\ last' = [Call("verify_refresh_token", token.payload.team_id, "none", 0,
                     VerifyRefreshToken(token, now))
                    EXCEPT !.presented = Kind(token), !.sig = token.sig]
    /\ UNCHANGED returned
    /\ SessionFrame

(* AuthService::refresh_token *)
RefreshToken(refresh_token) ==
    LET verified == VerifyRefreshToken(refresh_token, now)
        claims == refresh_token.payload
        access_token == CreateTokenWithExpiry(claims.sub, claims.team_id, claims.role,
                                              ACCESS_TOKEN_HOURS, now)
    IN  /\ verified = "Ok" => Cardinality(returned \cup {access_token}) <= MaxJwts
        /\ returned' = IF verified = "Ok" THEN returned \cup {access_token}
                       ELSE returned
        /\ last' = [Call("refresh_token", claims.team_id, "none", 0,
                         IF verified = "Ok" THEN "Ok" ELSE "Unauthorized")
                        EXCEPT !.presented = Kind(refresh_token),
                               !.sig = refresh_token.sig,
                               !.message = IF verified = "Ok" THEN "none"
                                           ELSE "Invalid refresh token",
                               !.minted = IF verified = "Ok" THEN {access_token}
                                          ELSE {}]
        /\ SessionFrame

(* impl FromRequest for AuthUser *)
AuthUserFromRequest(token) ==
    LET verified == JwtVerifyToken(token, now)
    IN  /\ last' = [Call("auth_user", token.payload.team_id, "none", 0,
                         IF verified = "Ok" THEN "Ok" ELSE "Unauthorized")
                        EXCEPT !.presented = Kind(token), !.sig = token.sig]
        /\ UNCHANGED returned
        /\ SessionFrame

(* The instants of the session-token runs: issue, past an access token's
   exp and leeway, past a refresh token's *)
JwtInstants == {0, 3700, 604900}

NextJwt ==
    \/ \E u \in UserIds, r \in Roles : JwtCreateToken(u, "t1", r)
    \/ \E u \in UserIds, r \in Roles : JwtCreateRefreshToken(u, "t1", r)
    \/ \E t \in Presentable : JwtVerify(t)
    \/ \E t \in Presentable : JwtVerifyRefresh(t)
    \/ \E t \in Presentable : RefreshToken(t)
    \/ \E t \in Presentable : AuthUserFromRequest(t)
    \/ \E t \in JwtInstants : ClockAdvance(t)

SpecJwt == Init /\ [][NextJwt]_vars

----------------------------------------------------------------------------
(* Registration and login: AuthService over the users and teams tables. A
   user's id is its position in users. *)

Emails == {"e1", "E1", "e2", "bad"}
Passwords == {"p1", "weak"}
LoginPasswords == {"p1", "p2"}
TeamNames == {"none", "acme"}

(* validator's email rule on RegisterRequest and LoginRequest *)
ValidEmail(email) == email # "bad"

(* PasswordService::validate_password *)
ValidatePassword(password) == password # "weak"

(* SQL LOWER on the emails of the runs *)
Lower(email) == IF email = "E1" THEN "e1" ELSE email

(* PasswordService::hash *)
Hash(password) == <<"bcrypt", password>>

PasswordVerifyAny(password, hash) == TRUE
(* PasswordService::verify *)
PasswordVerify(password, hash) == hash = Hash(password)

(* User::find_by_email: the ids of the live users of that email *)
FindByEmail(email) ==
    {u \in DOMAIN users :
        Lower(users[u].email) = Lower(email) /\ users[u].deleted_at = Null}

(* User::create: the row of INSERT INTO users *)
NewUserRow(email, password_hash, team_id, role) ==
    [email |-> Lower(email), password_hash |-> password_hash, team_id |-> team_id,
     role |-> role, is_active |-> TRUE, last_login |-> Null, deleted_at |-> Null]

(* The id the teams table gives the next row *)
NewTeamId == IF "t3" \notin DOMAIN teams THEN "t3" ELSE "t4"

AuthFrame ==
    UNCHANGED <<agents, credentials, versions, tokens, usageLog, returned, now, hist,
                tasks, apiKeys, quotas>>

(* The statements of register after which a failure is injected *)
RegisterFaults == {"none", "user", "owner", "access", "audit", "commit"}

(* AuthService::register. The statements between begin and commit run on
   the transaction: an error return drops it, which rolls it back. A failed
   audit insert is only warned about; the failed statement has aborted the
   transaction, and COMMIT of an aborted transaction rolls back and reports
   no error. *)
Register(email, password, team_name, fault) ==
    LET team_id == NewTeamId
        user_id == Len(users) + 1
        name == IF team_name = "none" THEN email ELSE team_name
        result ==
            IF ~ValidEmail(email) THEN "ValidationError"
            ELSE IF ~ValidatePassword(password) THEN "BadRequest"
            ELSE IF FindByEmail(email) # {} THEN "Conflict"
            ELSE IF fault \in {"user", "owner", "commit"} THEN "DatabaseError"
            ELSE IF fault = "access" THEN "InternalError"
            ELSE "Ok"
        committed == result = "Ok" /\ fault # "audit"
        access_token == CreateTokenWithExpiry(user_id, team_id, "admin",
                                              ACCESS_TOKEN_HOURS, now)
        refresh_token == CreateRefreshToken(user_id, team_id, "admin",
                                            REFRESH_TOKEN_DAYS, now)
    IN  /\ committed => (team_id \notin DOMAIN teams /\ Len(audit) < MaxAudit)
        /\ teams' = IF committed
                    THEN teams @@ (team_id :> [NewTeamRow(name, "temp", "free")
                                                  EXCEPT !.owner_id = user_id])
                    ELSE teams
        /\ users' = IF committed
                    THEN Append(users, NewUserRow(email, Hash(password), team_id, "admin"))
                    ELSE users
        /\ audit' = IF committed
                    THEN LogAuditEvent(audit, team_id, "register", user_id)
                    ELSE audit
        /\ last' = [Call("register", IF result = "Ok" THEN team_id ELSE "none",
                         "none", 0, result)
                        EXCEPT !.user = IF result = "Ok" THEN user_id ELSE 0,
                               !.minted = IF result = "Ok"
                                          THEN {access_token, refresh_token}
                                          ELSE {}]
        /\ AuthFrame

(* AuthService::login *)
Login(email, password) ==
    LET found == FindByEmail(email)
        user_id == CHOOSE u \in found : TRUE
        user == users[user_id]
        outcome ==
            IF ~ValidEmail(email) THEN <<"ValidationError", "none">>
            ELSE IF found = {} THEN <<"Unauthorized", "Invalid credentials">>
            ELSE IF ~user.is_active THEN <<"Unauthorized", "Account is disabled">>
            ELSE IF ~PasswordVerify(password, user.password_hash)
                 THEN <<"Unauthorized", "Invalid credentials">>
            ELSE <<"Ok", "none">>
        checked == ValidEmail(email) /\ found # {} /\ user.is_active
        access_token == CreateTokenWithExpiry(user_id, user.team_id, user.role,
                                              ACCESS_TOKEN_HOURS, now)
        refresh_token == CreateRefreshToken(user_id, user.team_id, user.role,
                                            REFRESH_TOKEN_DAYS, now)
    IN  /\ checked => Len(audit) < MaxAudit
        /\ users' = IF outcome[1] = "Ok"
                    THEN [users EXCEPT ![user_id].last_login = now]
                    ELSE users
        /\ audit' = IF ~checked THEN audit
                    ELSE LogAuditEvent(audit, user.team_id,
                                       IF outcome[1] = "Ok" THEN "login" ELSE "login_failed",
                                       user_id)
        /\ last' = [Call("login", IF checked THEN user.team_id ELSE "none",
                         "none", 0, outcome[1])
                        EXCEPT !.message = outcome[2],
                               !.user = IF checked THEN user_id ELSE 0,
                               !.minted = IF outcome[1] = "Ok"
                                          THEN {access_token, refresh_token}
                                          ELSE {}]
        /\ UNCHANGED teams
        /\ AuthFrame

(* users.is_active, which login reads and no statement of the service
   writes: the account is disabled in the table *)
DisableAccount(user_id) ==
    /\ users[user_id].is_active
    /\ users' = [users EXCEPT ![user_id].is_active = FALSE]
    /\ UNCHANGED <<teams, audit, last>>
    /\ AuthFrame

NextAuth ==
    \/ \E e \in Emails, p \in Passwords, n \in TeamNames, f \in RegisterFaults :
           Register(e, p, n, f)
    \/ \E e \in Emails, p \in LoginPasswords : Login(e, p)
    \/ \E u \in DOMAIN users : DisableAccount(u)

SpecAuth == Init /\ [][NextAuth]_vars

----------------------------------------------------------------------------
(* Agents: AgentService over the agents, agent_api_keys and agent_quotas
   tables. create_agent is four store calls with nothing around them, so it
   runs as a task, one call per step; two tasks run it concurrently. *)

AgentTasks == {"c1", "c2"}
AgentNames == {"a1", "bot", "job"}
AllAgentIds == AgentIds \cup {"a3", "a4"}
ApiKeys == {"k1", "k2", "kx", "bad"}
Statuses == {"None", "active", "suspended"}

(* The id the agents table gives the row a task inserts, and the key
   ApiKeyGenerator::generate draws for it *)
NewAgentId(task) == IF task = "c1" THEN "a3" ELSE "a4"
GenerateApiKey(task) == IF task = "c1" THEN "k3" ELSE "k4"

(* ApiKeyGenerator::hash *)
ApiKeyHash(key) == <<"sha256", key>>

(* ApiKeyGenerator::validate_format *)
ValidateFormat(key) == key # "bad"

(* A row of agent_api_keys as Agent::create inserts it *)
NewApiKeyRow(agent_id, api_key_hash) ==
    [agent_id |-> agent_id, api_key_hash |-> api_key_hash, status |-> "active",
     revoked_at |-> Null]

(* QuotaService::get_current_month_year, months taken as thirty days *)
MonthYear(t) == t \div Days(30)

(* QuotaService::initialize_agent_quota: the row of INSERT INTO agent_quotas *)
NewQuotaRow(agent_id, team_id, plan, t) ==
    LET limits == CASE plan = "enterprise" -> <<-1, 100>>
                    [] plan = "pro" -> <<100000, 50>>
                    [] OTHER -> <<1000, 5>>
    IN  [agent_id |-> agent_id, team_id |-> team_id, month_year |-> MonthYear(t),
         api_calls_limit |-> limits[1], key_rotations_limit |-> limits[2]]

(* The live agents of a tenant *)
LiveAgents(ags, team_id) ==
    {a \in DOMAIN ags : ags[a].team_id = team_id /\ ags[a].deleted_at = Null}

(* Team::check_agent_quota *)
CheckAgentQuota(ags, team_id) ==
    Cardinality(LiveAgents(ags, team_id)) < teams[team_id].max_agents

(* Agent::find_by_id *)
FindAgentById(agent_id) ==
    IF agent_id \in DOMAIN agents /\ agents[agent_id].deleted_at = Null
    THEN {agent_id} ELSE {}

FindByApiKeyHashAnyAgent(key_hash) ==
    {apiKeys[i].agent_id : i \in {j \in DOMAIN apiKeys :
        apiKeys[j].api_key_hash = key_hash /\ apiKeys[j].status = "active"}}
(* Agent::find_by_api_key_hash *)
FindByApiKeyHash(key_hash) ==
    {a \in {apiKeys[i].agent_id : i \in {j \in DOMAIN apiKeys :
                apiKeys[j].api_key_hash = key_hash /\ apiKeys[j].status = "active"}} :
        agents[a].deleted_at = Null /\ agents[a].status = "active"}

(* Agent::soft_delete, second statement: every key row of the agent *)
RevokeKeys(keys, agent_id, t) ==
    [i \in DOMAIN keys |->
        IF keys[i].agent_id = agent_id
        THEN [keys[i] EXCEPT !.status = "revoked", !.revoked_at = t]
        ELSE keys[i]]

(* The unique index on the live agents' (team_id, name): the INSERT of
   Agent::create fails on it and the error is mapped to Conflict *)
AgentNameTaken(ags, team_id, name) ==
    \E a \in DOMAIN ags :
        ags[a].team_id = team_id /\ ags[a].name = name /\ ags[a].deleted_at = Null

IdleAgentTask ==
    [pc |-> "idle", team |-> "none", name |-> "none", agent |-> "none",
     result |-> "none", message |-> "none", cred |-> 0]

AgentFrame ==
    UNCHANGED <<credentials, versions, tokens, usageLog, returned, now, hist,
                teams, users>>

(* create_agent step 1: QuotaService::check_agent_limit *)
CreateAgentCheck(task, team_id, name) ==
    /\ tasks[task].pc = "idle"
    /\ tasks' = [tasks EXCEPT ![task] =
                    IF CheckAgentQuota(agents, team_id)
                    THEN [@ EXCEPT !.pc = "create", !.team = team_id, !.name = name]
                    ELSE [@ EXCEPT !.pc = "done", !.team = team_id, !.name = name,
                                   !.result = "Conflict",
                                   !.message = "Team agent limit reached"]]
    /\ UNCHANGED <<agents, apiKeys, quotas, audit, last>>
    /\ AgentFrame

(* create_agent step 2: Agent::create, one transaction inserting the agent
   and its key; the name is unique among the tenant's agents *)
CreateAgentInsert(task) ==
    LET t == tasks[task]
        id == NewAgentId(task)
        taken == AgentNameTaken(agents, t.team, t.name)
    IN  /\ t.pc = "create"
        /\ agents' = IF taken THEN agents
                     ELSE agents @@ (id :> [team_id |-> t.team, name |-> t.name,
                                            status |-> "active", deleted_at |-> Null,
                                            last_used |-> Null, usage_count |-> 0])
        /\ apiKeys' = IF taken THEN apiKeys
                      ELSE Append(apiKeys,
                                  NewApiKeyRow(id, ApiKeyHash(GenerateApiKey(task))))
        /\ tasks' = [tasks EXCEPT ![task] =
                        IF taken
                        THEN [@ EXCEPT !.pc = "done", !.result = "Conflict",
                                       !.message = "Agent name already exists in team"]
                        ELSE [@ EXCEPT !.pc = "quota", !.agent = id]]
        /\ UNCHANGED <<quotas, audit, last>>
        /\ AgentFrame

(* create_agent step 3: QuotaService::initialize_agent_quota, which may
   fail, or the call be dropped before it *)
CreateAgentQuota(task, fails) ==
    LET t == tasks[task]
    IN  /\ t.pc = "quota"
        /\ quotas' = IF fails THEN quotas
                     ELSE Append(quotas, NewQuotaRow(t.agent, t.team,
                                                     teams[t.team].plan, now))
        /\ tasks' = [tasks EXCEPT ![task] =
                        IF fails THEN [@ EXCEPT !.pc = "done", !.result = "DatabaseError"]
                        ELSE [@ EXCEPT !.pc = "audit"]]
        /\ UNCHANGED <<agents, apiKeys, audit, last>>
        /\ AgentFrame

(* create_agent step 4: log_audit_event, then the response *)
CreateAgentAudit(task, fails) ==
    LET t == tasks[task]
    IN  /\ t.pc = "audit"
        /\ ~fails => Len(audit) < MaxAudit
        /\ audit' = IF fails THEN audit
                    ELSE LogAuditEvent(audit, t.team, "agent.create", t.agent)
        /\ tasks' = [tasks EXCEPT ![task] =
                        [@ EXCEPT !.pc = "done",
                                  !.result = IF fails THEN "DatabaseError" ELSE "Ok"]]
        /\ UNCHANGED <<agents, apiKeys, quotas, last>>
        /\ AgentFrame

(* AgentService::update_agent, with the status of the request *)
UpdateAgent(team_id, agent_id, status) ==
    LET found == FindAgentById(agent_id)
        result == IF found = {} THEN "NotFound"
                  ELSE IF agents[agent_id].team_id # team_id THEN "Forbidden"
                  ELSE "Ok"
    IN  /\ result = "Ok" => Len(audit) < MaxAudit
        /\ agents' = IF result = "Ok" /\ status # "None"
                     THEN [agents EXCEPT ![agent_id].status = status]
                     ELSE agents
        /\ audit' = IF result = "Ok"
                    THEN LogAuditEvent(audit, team_id, "agent.update", agent_id)
                    ELSE audit
        /\ last' = Call("update_agent", team_id, agent_id, 0, result)
        /\ UNCHANGED <<apiKeys, quotas, tasks>>
        /\ AgentFrame

(* AgentService::delete_agent *)
DeleteAgent(team_id, agent_id) ==
    LET found == FindAgentById(agent_id)
        result == IF found = {} THEN "NotFound"
                  ELSE IF agents[agent_id].team_id # team_id THEN "Forbidden"
                  ELSE "Ok"
    IN  /\ result = "Ok" => Len(audit) < MaxAudit
        /\ agents' = IF result = "Ok"
                     THEN [agents EXCEPT ![agent_id].deleted_at = now]
                     ELSE agents
        /\ apiKeys' = IF result = "Ok" THEN RevokeKeys(apiKeys, agent_id, now)
                      ELSE apiKeys
        /\ audit' = IF result = "Ok"
                    THEN LogAuditEvent(audit, team_id, "agent.delete", agent_id)
                    ELSE audit
        /\ last' = Call("delete_agent", team_id, agent_id, 0, result)
        /\ UNCHANGED <<quotas, tasks>>
        /\ AgentFrame

(* AgentService::get_agent_by_api_key *)
GetAgentByApiKey(api_key) ==
    LET found == IF ValidateFormat(api_key)
                 THEN FindByApiKeyHash(ApiKeyHash(api_key)) ELSE {}
        agent_id == CHOOSE a \in found : TRUE
    IN  /\ found # {} => agents[agent_id].usage_count < MaxLog
        /\ agents' = IF found # {} THEN UpdateLastUsed(agents, agent_id, now)
                     ELSE agents
        /\ last' = [Call("get_agent_by_api_key",
                         IF found # {} THEN agents[agent_id].team_id ELSE "none",
                         IF found # {} THEN agent_id ELSE "none", 0,
                         IF found # {} THEN "Ok" ELSE "Unauthorized")
                        EXCEPT !.presented = api_key,
                               !.message = IF ~ValidateFormat(api_key)
                                           THEN "Invalid API key format"
                                           ELSE IF found = {} THEN "Invalid API key"
                                           ELSE "none"]
        /\ UNCHANGED <<apiKeys, quotas, audit, tasks>>
        /\ AgentFrame

(* One live, active agent per tenant, each with its key and its quota row *)
InitAgent ==
    /\ agents = InitAgents
    /\ apiKeys = <<NewApiKeyRow("a1", ApiKeyHash("k1")),
                   NewApiKeyRow("a2", ApiKeyHash("k2"))>>
    /\ quotas = <<NewQuotaRow("a1", "t1", "free", 0), NewQuotaRow("a2", "t2", "free", 0)>>
    /\ teams = InitTeams
    /\ tasks = [t \in AgentTasks |-> IdleAgentTask]
    /\ credentials = <<>> /\ versions = <<>> /\ audit = <<>> /\ tokens = <<>>
    /\ usageLog = <<>> /\ returned = {} /\ now = 0 /\ last = NoCall
    /\ hist = NoHist /\ users = <<>>

NextAgent ==
    \/ \E t \in Tenants, a \in AllAgentIds, s \in Statuses : UpdateAgent(t, a, s)
    \/ \E t \in Tenants, a \in AllAgentIds : DeleteAgent(t, a)
    \/ \E k \in ApiKeys : GetAgentByApiKey(k)

SpecAgent == InitAgent /\ [][NextAgent]_vars

NextCreate ==
    \/ \E k \in AgentTasks, n \in AgentNames : CreateAgentCheck(k, "t1", n)
    \/ \E k \in AgentTasks : CreateAgentInsert(k)
    \/ \E k \in AgentTasks, f \in BOOLEAN : CreateAgentQuota(k, f)
    \/ \E k \in AgentTasks, f \in BOOLEAN : CreateAgentAudit(k, f)
    \/ \E a \in AllAgentIds : DeleteAgent("t1", a)

SpecCreate == InitAgent /\ [][NextCreate]_vars

----------------------------------------------------------------------------
(* create_credential with a store call that fails: Credential::create, a
   transaction of its own, or the log_audit_event after it *)

CreateFaults == {"none", "create", "audit"}

NextCredFault ==
    \/ \E t \in Tenants, a \in AgentIds, n \in Names, s \in {"s1", ""}, f \in CreateFaults :
            CreateCredential(t, a, n, s, "true", Null, f)
    \/ \E t \in Tenants, c \in CredIds : DeleteCredential(t, c)
    \/ \E t \in CredInstants : ClockAdvance(t)

SpecCredFault == Init /\ [][NextCredFault]_vars

----------------------------------------------------------------------------
(* Names under concurrent creates: create_agent and create_credential as
   tasks, a store call per step, every call succeeding unless the store
   refuses it. *)

CredentialNames == {"db", "api"}

(* create_credential steps 1 and 2: validate, check_credential_quota *)
CreateCredentialCheck(task, team_id, agent_id, name) ==
    /\ tasks[task].pc = "idle"
    /\ tasks' = [tasks EXCEPT ![task] =
                    IF CheckCredentialQuota(credentials, agents, team_id)
                    THEN [@ EXCEPT !.pc = "insert", !.team = team_id,
                                   !.agent = agent_id, !.name = name]
                    ELSE [@ EXCEPT !.pc = "done", !.team = team_id,
                                   !.agent = agent_id, !.name = name,
                                   !.result = "Conflict",
                                   !.message = "Team credential limit reached"]]
    /\ UNCHANGED <<agents, credentials, versions, audit, tokens, usageLog, returned,
                   now, last, hist, teams, users, apiKeys, quotas>>

(* create_credential steps 3 and 4: encrypt, Credential::create, one
   transaction inserting the credential and its version 1 *)
CreateCredentialInsert(task) ==
    LET t == tasks[task]
        id == NewCredentialId(credentials)
        encrypted_value == Encrypt("s1", AadGenerate(t.agent, id))
        taken == CredentialNameTaken(credentials, t.agent, t.name)
    IN  /\ t.pc = "insert"
        /\ id \in CredIds
        /\ credentials' = IF taken THEN credentials
                          ELSE credentials @@
                               (id :> NewCredentialRow(t.agent, t.team, t.name, "None",
                                          encrypted_value, FALSE, Null, now))
        /\ versions' = IF taken THEN versions
                       ELSE versions @@ (id :> InsertVersion(<<>>, 1, encrypted_value))
        /\ hist' = IF taken THEN hist
                   ELSE [hist EXCEPT !.rotations = hist.rotations @@ (id :> 0)]
        /\ tasks' = [tasks EXCEPT ![task] =
                        IF taken
                        THEN [@ EXCEPT !.pc = "done", !.result = "Conflict",
                                       !.message = "Credential name already exists for this agent"]
                        ELSE [@ EXCEPT !.pc = "log", !.cred = id]]
        /\ UNCHANGED <<agents, audit, tokens, usageLog, returned, now, last, teams,
                       users, apiKeys, quotas>>

(* create_credential step 5: log_audit_event, then the response *)
CreateCredentialAudit(task) ==
    LET t == tasks[task]
    IN  /\ t.pc = "log"
        /\ Len(audit) < MaxAudit
        /\ audit' = LogAuditEvent(audit, t.team, "credential.create", t.cred)
        /\ tasks' = [tasks EXCEPT ![task] = [@ EXCEPT !.pc = "done", !.result = "Ok"]]
        /\ UNCHANGED <<agents, credentials, versions, tokens, usageLog, returned, now,
                       last, hist, teams, users, apiKeys, quotas>>

NextNames ==
    \/ \E k \in AgentTasks, n \in AgentNames : CreateAgentCheck(k, "t1", n)
    \/ \E k \in AgentTasks : CreateAgentInsert(k)
    \/ \E k \in AgentTasks : CreateAgentQuota(k, FALSE)
    \/ \E k \in AgentTasks : CreateAgentAudit(k, FALSE)
    \/ \E k \in AgentTasks, n \in CredentialNames : CreateCredentialCheck(k, "t1", "a1", n)
    \/ \E k \in AgentTasks : CreateCredentialInsert(k)
    \/ \E k \in AgentTasks : CreateCredentialAudit(k)
    \/ \E c \in CredIds : DeleteCredential("t1", c)

SpecNames == InitAgent /\ [][NextNames]_vars

----------------------------------------------------------------------------
(* One tenant's credentials of one agent through their whole life: created,
   read, changed, deleted, created again under the same name, and asked for
   by name through generate_token *)

NextLife ==
    \/ CreateCredential("t1", "a1", "db", "s1", "true", Null, "none")
    \/ \E c \in CredIds : GetCredential("t1", c)
    \/ \E c \in CredIds : DecryptCredential("t1", c)
    \/ \E c \in CredIds : UpdateCredential("t1", c, "d", "None", Null, "None")
    \/ \E c \in CredIds : RotateCredential("t1", c, "s2")
    \/ \E c \in CredIds : GetVersions("t1", c)
    \/ \E c \in CredIds : DeleteCredential("t1", c)
    \/ ListCredentials("t1", "a1", Null, Null)
    \/ GenerateToken("a1", "db", "none")

SpecLife == Init /\ [][NextLife]_vars

----------------------------------------------------------------------------
(* The decrypt route of an agent: POST /agents/{agent_id}/credentials/{id}/decrypt
   behind the ApiKeyAuth extractor *)

OwnedByAny(agent_id, auth_agent_id) == TRUE

(* handlers::credentials::decrypt_credential: credential.agent_id != auth.agent_id *)
OwnedBy(agent_id, auth_agent_id) == agent_id = auth_agent_id

(* ApiKeyAuth::from_request (verify_api_key: the key's live, active agent, whose
   last_used it stamps), then the handler: the path's agent against the key's,
   the service call under the key's tenant, the credential's agent against the
   key's.  The service has decrypted, stamped last_accessed and logged the
   event by the time the handler's second comparison refuses. *)
DecryptHandler(api_key, path_agent_id, credential_id) ==
    LET found == IF ValidateFormat(api_key)
                 THEN FindByApiKeyHash(ApiKeyHash(api_key)) ELSE {}
        auth_agent == CHOOSE a \in found : TRUE
        auth_team == agents[auth_agent].team_id
        called == found # {} /\ auth_agent = path_agent_id
        access == Access(auth_team, credential_id)
        plain == Decrypt(credentials[credential_id].encrypted_value,
                         AadGenerate(credentials[credential_id].agent_id,
                                     credential_id))
        service == IF access # "Ok" THEN access
                   ELSE IF ~plain.ok THEN "InternalError"
                   ELSE "Ok"
        result == IF found = {} THEN "Unauthorized"
                  ELSE IF auth_agent # path_agent_id THEN "Forbidden"
                  ELSE IF service # "Ok" THEN service
                  ELSE IF ~OwnedBy(credentials[credential_id].agent_id, auth_agent)
                       THEN "Forbidden"
                  ELSE "Ok"
    IN  /\ Len(audit) < MaxAudit
        /\ found # {} => agents[auth_agent].usage_count < MaxLog
        /\ agents' = IF found # {} THEN UpdateLastUsed(agents, auth_agent, now)
                     ELSE agents
        /\ IF called /\ service = "Ok"
           THEN /\ credentials' = UpdateLastAccessed(credentials, credential_id, now)
                /\ audit' = LogAuditEvent(audit, auth_team, "credential.decrypt",
                                          credential_id)
           ELSE UNCHANGED <<credentials, audit>>
        /\ last' = [Call("agent_decrypt",
                         IF found # {} THEN auth_team ELSE "none",
                         IF found # {} THEN auth_agent ELSE "none",
                         credential_id, result)
                        EXCEPT !.secret = IF result = "Ok" THEN plain.pt ELSE "none",
                               !.presented = api_key,
                               !.user = path_agent_id]
        /\ UNCHANGED <<versions, now, hist, tokens, usageLog, returned, tasks,
                       teams, users, apiKeys, quotas>>

(* Agents a1 and a3 of tenant t1 and a2 of tenant t2, each with its key *)
InitDecrypt ==
    /\ agents = InitAgents @@ ("a3" :> [InitAgents["a1"] EXCEPT !.name = "a3"])
    /\ apiKeys = <<NewApiKeyRow("a1", ApiKeyHash("k1")),
                   NewApiKeyRow("a2", ApiKeyHash("k2")),
                   NewApiKeyRow("a3", ApiKeyHash("k3"))>>
    /\ quotas = <<NewQuotaRow("a1", "t1", "free", 0), NewQuotaRow("a2", "t2", "free", 0),
                  NewQuotaRow("a3", "t1", "free", 0)>>
    /\ teams = InitTeams
    /\ tasks = [t \in AgentTasks |-> IdleAgentTask]
    /\ credentials = <<>> /\ versions = <<>> /\ audit = <<>> /\ tokens = <<>>
    /\ usageLog = <<>> /\ returned = {} /\ now = 0 /\ last = NoCall
    /\ hist = NoHist /\ users = <<>>

NextDecrypt ==
    \/ CreateCredential("t1", "a1", "db", "s1", "None", Null, "none")
    \/ CreateCredential("t2", "a2", "db", "s1", "None", Null, "none")
    \/ \E k \in {"k1", "k3", "bad"}, p \in {"a1", "a3"}, c \in CredIds :
           DecryptHandler(k, p, c)
    \/ \E c \in CredIds : DeleteCredential("t1", c)

SpecDecrypt == InitDecrypt /\ [][NextDecrypt]_vars

----------------------------------------------------------------------------
(* generate_token over agents that are suspended, reactivated and deleted and
   credentials that are created and deleted; every store call succeeds *)

NextIssue ==
    \/ \E a \in AgentIds, n \in CredentialNames : GenerateToken(a, n, "none")
    \/ \E s \in {"active", "suspended"} : UpdateAgent("t1", "a1", s)
    \/ DeleteAgent("t2", "a2")
    \/ CreateCredential("t2", "a2", "api", "s2", "None", Null, "none")
    \/ \E c \in CredIds : DeleteCredential("t1", c)

SpecIssue == InitTok /\ [][NextIssue]_vars

----------------------------------------------------------------------------
(* The credential routes of a session user: RequireRole, then the service *)

CallerRoles == {"admin", "developer", "viewer", "Admin", "guest"}

RequireRoleAny(role, roles) == TRUE

(* RequireRole::check: roles.contains(&auth.role.as_str()) *)
RequireRole(role, roles) == role \in roles

(* RequireRole::admin, ::developer, ::viewer *)
RequireAdmin == {"admin"}
RequireDeveloper == {"admin", "developer"}
RequireViewer == {"admin", "developer", "viewer"}

(* The RequireRole call each handler of handlers/credentials.rs opens with *)
HandlerRoles(op) ==
    CASE op = "create" -> RequireDeveloper
      [] op = "list" -> RequireViewer
      [] op = "get" -> RequireViewer
      [] op = "update" -> RequireDeveloper
      [] op = "delete" -> RequireAdmin
      [] op = "rotate" -> RequireDeveloper
      [] op = "versions" -> RequireViewer

(* RequireRole::...(&auth)? returning early: Forbidden, nothing else runs *)
Refuse(op, team_id, role) ==
    /\ last' = [Call(op, team_id, "none", 0, "Forbidden")
                    EXCEPT !.message = "Required role", !.user = role]
    /\ UNCHANGED <<agents, credentials, versions, audit, tokens, usageLog,
                   returned, now, hist, tasks, teams, users, apiKeys, quotas>>

(* The handlers: the role check, then the service call under auth.team_id *)
CreateHandler(role) ==
    IF RequireRole(role, HandlerRoles("create"))
    THEN CreateCredential("t1", "a1", "db", "s1", "true", Null, "none")
    ELSE Refuse("create", "t1", role)

ListHandler(role) ==
    IF RequireRole(role, HandlerRoles("list"))
    THEN ListCredentials("t1", "a1", Null, Null)
    ELSE Refuse("list", "t1", role)

GetHandler(role, id) ==
    IF RequireRole(role, HandlerRoles("get")) THEN GetCredential("t1", id)
    ELSE Refuse("get", "t1", role)

UpdateHandler(role, id) ==
    IF RequireRole(role, HandlerRoles("update"))
    THEN UpdateCredential("t1", id, "d", "None", Null, "None")
    ELSE Refuse("update", "t1", role)

DeleteHandler(role, id) ==
    IF RequireRole(role, HandlerRoles("delete")) THEN DeleteCredential("t1", id)
    ELSE Refuse("delete", "t1", role)

RotateHandler(role, id) ==
    IF RequireRole(role, HandlerRoles("rotate")) THEN RotateCredential("t1", id, "s2")
    ELSE Refuse("rotate", "t1", role)

VersionsHandler(role, id) ==
    IF RequireRole(role, HandlerRoles("versions")) THEN GetVersions("t1", id)
    ELSE Refuse("versions", "t1", role)

NextRoles ==
    \E role \in CallerRoles :
        \/ CreateHandler(role)
        \/ ListHandler(role)
        \/ \E id \in CredIds : GetHandler(role, id)
        \/ \E id \in CredIds : UpdateHandler(role, id)
        \/ \E id \in CredIds : DeleteHandler(role, id)
        \/ \E id \in CredIds : RotateHandler(role, id)
        \/ \E id \in CredIds : VersionsHandler(role, id)

SpecRoles == Init /\ [][NextRoles]_vars

----------------------------------------------------------------------------
(* Two runs of the same calls of tenant t1 on agent a1's credential "db",
   differing in the secrets supplied.  A run is a record of its tables; the
   audit rows carry the change_description the service passes. *)

TwinSecrets == {"", "s1", "s2"}

EmptyRun == [credentials |-> <<>>, versions |-> <<>>, audit |-> <<>>,
             usageLog |-> <<>>, tokens |-> 0]

(* log_audit_event with its change_description *)
AuditRow(team_id, event_type, resource_id, change_description) ==
    [team_id |-> team_id, event_type |-> event_type, resource_id |-> resource_id,
     change_description |-> change_description]

DecryptedDescriptionWithSecret(secret) == <<"Secret decrypted", secret>>

(* decrypt_credential: Some("Secret decrypted"), the secret in scope *)
DecryptedDescription(secret) == <<"Secret decrypted">>

(* create_credential *)
RunCreate(r, secret) ==
    LET id == NewCredentialId(r.credentials)
        encrypted_value == Encrypt(secret, AadGenerate("a1", id))
    IN  IF \/ secret = ""
           \/ ~CheckCredentialQuota(r.credentials, InitAgents, "t1")
           \/ CredentialNameTaken(r.credentials, "a1", "db")
        THEN r
        ELSE [r EXCEPT
                !.credentials = @ @@ (id :> NewCredentialRow("a1", "t1", "db", "None",
                                                encrypted_value, TRUE, Null, 0)),
                !.versions = @ @@ (id :> InsertVersion(<<>>, 1, encrypted_value)),
                !.audit = Append(@, AuditRow("t1", "credential.create", id,
                                             <<"Created credential", "db">>))]

(* decrypt_credential *)
RunDecrypt(r, id) ==
    LET plain == Decrypt(r.credentials[id].encrypted_value, AadGenerate("a1", id))
    IN  IF ~FindById(r.credentials, id) \/ ~plain.ok THEN r
        ELSE [r EXCEPT
                !.credentials = UpdateLastAccessed(@, id, 0),
                !.audit = Append(@, AuditRow("t1", "credential.decrypt", id,
                                             DecryptedDescription(plain.pt)))]

(* rotate_credential *)
RunRotate(r, id, new_secret) ==
    LET encrypted_value == Encrypt(new_secret, AadGenerate("a1", id))
    IN  IF \/ ~FindById(r.credentials, id)
           \/ ~r.credentials[id].rotation_enabled
           \/ new_secret = ""
        THEN r
        ELSE [r EXCEPT
                !.versions[id] = RotateVersions(@, encrypted_value, 0),
                !.credentials = RotateCredentials(@, id, encrypted_value, 0),
                !.audit = Append(@, AuditRow("t1", "credential.rotate", id,
                                             <<"Manual rotation">>))]

(* update_credential with a secret and nothing else *)
RunUpdate(r, id, secret) ==
    LET encrypted_value == Encrypt(secret, AadGenerate("a1", id))
    IN  IF ~FindById(r.credentials, id) \/ secret = "" THEN r
        ELSE [r EXCEPT
                !.versions[id] = RotateVersions(@, encrypted_value, 0),
                !.credentials = RotateCredentials(@, id, encrypted_value, 0),
                !.audit = Append(@, AuditRow("t1", "credential.update", id,
                                             <<"Updated", "secret (rotated)">>))]

(* delete_credential *)
RunDelete(r, id) ==
    IF ~FindById(r.credentials, id) THEN r
    ELSE [r EXCEPT
            !.credentials = SoftDelete(@, id, 0),
            !.audit = Append(@, AuditRow("t1", "credential.delete", id,
                                         <<"Soft deleted credential">>))]

(* generate_token: the usage log's 'issued' row *)
RunGenerate(r) ==
    LET found == FindByName(r.credentials, "a1", "db")
        id == CHOOSE c \in found : TRUE
        plain == Decrypt(r.credentials[id].encrypted_value, AadGenerate("a1", id))
    IN  IF found = {} \/ ~plain.ok THEN r
        ELSE [r EXCEPT
                !.tokens = @ + 1,
                !.usageLog = LogAction(@, r.tokens + 1, "a1",
                                       r.credentials[id].team_id, "issued"),
                !.credentials = UpdateLastAccessed(@, id, 0)]

(* Room for one more row in every table of a run *)
RunRoom(r) ==
    /\ Len(r.audit) < MaxAudit
    /\ Len(r.usageLog) < MaxLog
    /\ \A c \in DOMAIN r.versions : Len(r.versions[c]) < MaxVersions

(* Both runs take the same call; accepted records that no secret supplied so
   far was empty *)
Twin(left, right, s1, s2) ==
    /\ tasks' = [left |-> left, right |-> right,
                 accepted |-> tasks.accepted /\ s1 # "" /\ s2 # ""]
    /\ UNCHANGED <<agents, credentials, versions, audit, tokens, usageLog,
                   returned, now, last, hist, teams, users, apiKeys, quotas>>

TwinRoom == RunRoom(tasks.left) /\ RunRoom(tasks.right)

TwinCreate(s1, s2) ==
    /\ TwinRoom
    /\ NewCredentialId(tasks.left.credentials) \in CredIds
    /\ NewCredentialId(tasks.right.credentials) \in CredIds
    /\ Twin(RunCreate(tasks.left, s1), RunCreate(tasks.right, s2), s1, s2)
TwinDecrypt(id) ==
    /\ TwinRoom
    /\ Twin(RunDecrypt(tasks.left, id), RunDecrypt(tasks.right, id), "s1", "s1")
TwinRotate(id, s1, s2) ==
    /\ TwinRoom
    /\ Twin(RunRotate(tasks.left, id, s1), RunRotate(tasks.right, id, s2), s1, s2)
TwinUpdate(id, s1, s2) ==
    /\ TwinRoom
    /\ Twin(RunUpdate(tasks.left, id, s1), RunUpdate(tasks.right, id, s2), s1, s2)
TwinDelete(id) ==
    /\ TwinRoom
    /\ Twin(RunDelete(tasks.left, id), RunDelete(tasks.right, id), "s1", "s1")
TwinGenerate ==
    /\ TwinRoom
    /\ Twin(RunGenerate(tasks.left), RunGenerate(tasks.right), "s1", "s1")

InitTwin ==
    /\ InitStore
    /\ tasks = [left |-> EmptyRun, right |-> EmptyRun, accepted |-> TRUE]

NextTwin ==
    \/ \E s1, s2 \in TwinSecrets : TwinCreate(s1, s2)
    \/ \E id \in CredIds : TwinDecrypt(id)
    \/ \E id \in CredIds, s1 \in TwinSecrets : TwinRotate(id, s1, "s2")
    \/ \E id \in CredIds, s2 \in TwinSecrets : TwinUpdate(id, "s1", s2)
    \/ \E id \in CredIds : TwinDelete(id)
    \/ TwinGenerate

SpecTwin == InitTwin /\ [][NextTwin]_vars

----------------------------------------------------------------------------
(* EncryptionService (services/encryption.rs), by the byte.  A byte is a
   number below 256; a character of a text is a hex digit 0 .. 15, or 16 for
   a character that is no hex digit; the length of a text in bytes is its
   number of characters. *)

NONCE_SIZE == 12
TAG_SIZE == 16

CipherKeys == {7, 200}
Plaintexts == {<<>>, <<104>>, <<104, 105>>}
Nonces == {[i \in 1 .. NONCE_SIZE |-> 0], [i \in 1 .. NONCE_SIZE |-> 16 * i + 3]}

RECURSIVE ByteSum(_)
ByteSum(bytes) ==
    IF bytes = <<>> THEN 0 ELSE (Head(bytes) + ByteSum(Tail(bytes))) % 256

(* Aes256Gcm: a keystream of the key and the nonce over the plaintext, then
   the 16-byte tag over key, nonce and ciphertext *)
Keystream(key, nonce, i) == (key + nonce[1] + nonce[NONCE_SIZE] + i) % 256
GcmTag(key, nonce, ciphertext) ==
    [j \in 1 .. TAG_SIZE |->
        (key + 3 * nonce[NONCE_SIZE] + ByteSum(ciphertext) + j) % 256]

(* cipher.encrypt(nonce, plaintext): ciphertext followed by the tag *)
Aes256GcmEncrypt(key, nonce, plaintext) ==
    LET ciphertext == [i \in 1 .. Len(plaintext) |->
                          (plaintext[i] + Keystream(key, nonce, i)) % 256]
    IN  ciphertext \o GcmTag(key, nonce, ciphertext)

(* cipher.decrypt(nonce, ciphertext): the tag is checked, then the keystream
   taken off *)
Aes256GcmDecrypt(key, nonce, data) ==
    LET n == Len(data) - TAG_SIZE
        ciphertext == SubSeq(data, 1, n)
    IN  IF SubSeq(data, n + 1, Len(data)) # GcmTag(key, nonce, ciphertext)
        THEN [ok |-> FALSE, bytes |-> <<>>]
        ELSE [ok |-> TRUE,
              bytes |-> [i \in 1 .. n |->
                            (ciphertext[i] + 256 - Keystream(key, nonce, i)) % 256]]

(* hex::encode: two digits a byte, the high one first *)
HexEncode(bytes) ==
    [i \in 1 .. 2 * Len(bytes) |->
        IF i % 2 = 1 THEN bytes[(i + 1) \div 2] \div 16 ELSE bytes[i \div 2] % 16]

(* hex::decode: an odd length, then a character that is no digit, is an error *)
HexDecode(text) ==
    IF Len(text) % 2 = 1 THEN [ok |-> FALSE, bytes |-> <<>>]
    ELSE IF \E i \in DOMAIN text : text[i] > 15 THEN [ok |-> FALSE, bytes |-> <<>>]
    ELSE [ok |-> TRUE,
          bytes |-> [i \in 1 .. Len(text) \div 2 |->
                        16 * text[2 * i - 1] + text[2 * i]]]

(* EncryptionService::encrypt, the nonce OsRng drew given *)
ServiceEncrypt(key, nonce, plaintext) ==
    HexEncode(nonce \o Aes256GcmEncrypt(key, nonce, plaintext))

(* EncryptionService::decrypt *)
ServiceDecrypt(key, encrypted) ==
    LET decoded == HexDecode(encrypted)
        plain == Aes256GcmDecrypt(key, SubSeq(decoded.bytes, 1, NONCE_SIZE),
                                  SubSeq(decoded.bytes, NONCE_SIZE + 1,
                                         Len(decoded.bytes)))
    IN  IF ~decoded.ok THEN [result |-> "HexDecodeError", plaintext |-> <<>>]
        ELSE IF Len(decoded.bytes) < NONCE_SIZE + TAG_SIZE
             THEN [result |-> "InvalidCiphertext", plaintext |-> <<>>]
        ELSE IF ~plain.ok THEN [result |-> "DecryptionFailed", plaintext |-> <<>>]
        ELSE [result |-> "Ok", plaintext |-> plain.bytes]

CipherFrame ==
    UNCHANGED <<agents, credentials, versions, audit, tokens, usageLog, returned,
                now, hist, teams, users, apiKeys, quotas>>

(* encrypt(plaintext) under a key, with the nonce drawn *)
CipherEncrypt(key, nonce, plaintext) ==
    /\ tasks' = [key |-> key, nonce |-> nonce, plaintext |-> plaintext,
                 encrypted |-> ServiceEncrypt(key, nonce, plaintext),
                 fresh |-> TRUE]
    /\ last' = [Call("encrypt", "none", "none", 0, "Ok") EXCEPT !.user = key]
    /\ CipherFrame

(* The caller keeps the first n characters of the text *)
CipherShorten(n) ==
    /\ n < Len(tasks.encrypted)
    /\ tasks' = [tasks EXCEPT !.encrypted = SubSeq(@, 1, n), !.fresh = FALSE]
    /\ last' = [Call("shorten", "none", "none", 0, "Ok") EXCEPT !.count = n]
    /\ CipherFrame

(* The caller changes the last character of the text *)
CipherTamper(char) ==
    /\ tasks.encrypted # <<>>
    /\ tasks.encrypted[Len(tasks.encrypted)] # char
    /\ tasks' = [tasks EXCEPT !.encrypted[Len(tasks.encrypted)] = char,
                              !.fresh = FALSE]
    /\ last' = [Call("tamper", "none", "none", 0, "Ok") EXCEPT !.count = char]
    /\ CipherFrame

(* decrypt(encrypted) under a key *)
CipherDecrypt(key) ==
    LET out == ServiceDecrypt(key, tasks.encrypted)
    IN  /\ last' = [Call("decrypt", "none", "none", 0, out.result)
                        EXCEPT !.user = key, !.listed = out.plaintext,
                               !.count = Len(tasks.encrypted)]
        /\ UNCHANGED tasks
        /\ CipherFrame

InitCipher ==
    /\ InitStore
    /\ tasks = [key |-> 7, nonce |-> <<>>, plaintext |-> <<>>, encrypted |-> <<>>,
                fresh |-> FALSE]

NextCipher ==
    \/ \E key \in CipherKeys, nonce \in Nonces, plaintext \in Plaintexts :
           CipherEncrypt(key, nonce, plaintext)
    \/ \E n \in {0, 7, 26, 40, 54, 56} : CipherShorten(n)
    \/ \E char \in {0, 16} : CipherTamper(char)
    \/ \E key \in CipherKeys : CipherDecrypt(key)

SpecCipher == InitCipher /\ [][NextCipher]_vars

----------------------------------------------------------------------------
(* The AAD by the byte, and encrypted values moved between rows *)

(* Uuid::as_bytes: the 16 bytes of an agent's and of a credential's id *)
AgentUuid(agent_id) ==
    [i \in 1 .. 16 |-> IF agent_id = "a1" THEN 161 ELSE IF agent_id = "a2" THEN 162
                       ELSE 163]
CredentialUuid(credential_id) == [i \in 1 .. 16 |-> (i * credential_id) % 256]

(* AadGenerator::generate, the bytes: agent_id (16) || credential_id (16) *)
AadBytes(agent_id, credential_id) ==
    AgentUuid(agent_id) \o CredentialUuid(credential_id)

(* A write to the credentials table from outside the services: the
   encrypted_value of one row is copied to another *)
MoveEncryptedValue(from, to) ==
    /\ from \in DOMAIN credentials /\ to \in DOMAIN credentials /\ from # to
    /\ credentials' = [credentials EXCEPT
                          ![to].encrypted_value = credentials[from].encrypted_value]
    /\ last' = [Call("move", "none", "none", to, "Ok") EXCEPT !.count = from]
    /\ UNCHANGED <<versions, audit, now, hist>>
    /\ TokenTablesUnchanged

NextMove ==
    \/ CreateCredential("t1", "a1", "db", "s1", "None", Null, "none")
    \/ CreateCredential("t2", "a2", "db", "s2", "None", Null, "none")
    \/ \E from, to \in CredIds : MoveEncryptedValue(from, to)
    \/ \E c \in CredIds : DecryptCredential("t2", c)
    \/ \E a \in AgentIds : GenerateToken(a, "db", "none")

SpecMove == Init /\ [][NextMove]_vars

----------------------------------------------------------------------------
(* Two revoke_token requests side by side, with generate_token and the sweep:
   each store call is a statement on the pool, committed on its own.  tasks
   holds the two requests. *)

Revokers == {"r1", "r2"}

RevokeFrame ==
    UNCHANGED <<agents, credentials, versions, audit, returned, now, last, hist,
                teams, users, apiKeys, quotas>>

(* revoke_token steps 1 and 2: find_by_jti and the early returns *)
RevokeFindBy(k, jti) ==
    /\ Free(tasks[k])
    /\ tasks' = [tasks EXCEPT ![k] =
            IF jti \notin DOMAIN tokens THEN Finish(IdleTask, "NotFound")
            ELSE IF AlreadyRevoked(tokens[jti].status)
            THEN [Finish(IdleTask, "Ok") EXCEPT !.token.jti = jti]
            ELSE [IdleTask EXCEPT !.pc = "revoke", !.token.jti = jti,
                    !.token.agent_id = tokens[jti].agent_id,
                    !.token.team_id = tokens[jti].team_id,
                    !.seen = tokens[jti].status]]
    /\ UNCHANGED <<tokens, usageLog>>
    /\ RevokeFrame

(* revoke_token step 3: EphemeralToken::revoke *)
RevokeUpdateBy(k) ==
    /\ tasks[k].pc = "revoke"
    /\ tokens' = RevokeRow(tokens, tasks[k].token.jti, now)
    /\ tasks' = [tasks EXCEPT ![k].pc = "log"]
    /\ UNCHANGED usageLog
    /\ RevokeFrame

(* revoke_token step 4 and the response *)
RevokeLogBy(k) ==
    /\ tasks[k].pc = "log"
    /\ Len(usageLog) < MaxLog
    /\ usageLog' = LogAction(usageLog, tasks[k].token.jti, tasks[k].token.agent_id,
                             tasks[k].token.team_id, "revoked")
    /\ tasks' = [tasks EXCEPT ![k] = Finish(@, "Ok")]
    /\ UNCHANGED tokens
    /\ RevokeFrame

InitRevoke ==
    /\ InitTokStore
    /\ tasks = [k \in Revokers |-> IdleTask]

NextRevoke ==
    \/ GenerateToken("a1", "db", "none")
    \/ \E k \in Revokers, j \in 1 .. MaxTokens : RevokeFindBy(k, j)
    \/ \E k \in Revokers : RevokeUpdateBy(k)
    \/ \E k \in Revokers : RevokeLogBy(k)
    \/ CleanupExpiredTokens
    \/ ClockAdvance(2)

SpecRevoke == InitRevoke /\ [][NextRevoke]_vars

----------------------------------------------------------------------------
(* verify_token against everything a caller can hand it, while the
   credential and the agent of the token change *)

(* What verify_token may be handed: the tokens handed out, the same with the
   signature altered, and tokens under the service's signature with another
   token_type or with a jti no row has *)
Verifiable ==
    Presentable
        \cup {[t EXCEPT !.token_type = "session"] : t \in returned}
        \cup {[t EXCEPT !.jti = MaxTokens + 1] : t \in returned}

NextVerify ==
    \/ GenerateToken("a1", "db", "none")
    \/ \E t \in Verifiable : VerifyToken(t, "none")
    \/ RevokeToken(1, "none")
    \/ CleanupExpiredTokens
    \/ \E t \in TokInstants : ClockAdvance(t)

SpecVerify == InitTok /\ [][NextVerify]_vars

(* verify_token after the credential or the agent of the token changed *)
NextAfter ==
    \/ GenerateToken("a1", "db", "none")
    \/ \E t \in Presentable : VerifyToken(t, "none")
    \/ RevokeToken(1, "none")
    \/ RotateCredential("t1", 1, "s2")
    \/ DeleteCredential("t1", 1)
    \/ UpdateAgent("t1", "a1", "suspended")
    \/ DeleteAgent("t1", "a1")
    \/ ClockAdvance(62)

SpecAfter == InitTok /\ [][NextAfter]_vars

----------------------------------------------------------------------------
(* Session tokens and ephemeral tokens under the one JWT_SECRET, each handed
   to the verifier of the other *)

(* The fields of struct EphemeralTokenClaims *)
EphemeralTokenClaimsFields ==
    {"sub", "agent_id", "team_id", "secret", "credential_type",
     "credential_name", "exp", "iat", "jti", "token_type"}

(* The payload encode() serialises the claims of generate_token into *)
EphemeralWire(t) ==
    [payload |-> [sub |-> t.sub, agent_id |-> t.agent_id, team_id |-> t.team_id,
                  secret |-> t.secret, credential_type |-> "generic",
                  credential_name |-> "db", exp |-> t.exp, iat |-> t.iat,
                  jti |-> t.jti, token_type |-> t.token_type],
     sig |-> t.sig]

(* Whether generate_token minted the token, and the token as it travels *)
IsEphemeral(t) == "payload" \notin DOMAIN t
Wire(t) == IF IsEphemeral(t) THEN EphemeralWire(t) ELSE t

(* The claims decode::<EphemeralTokenClaims> reads out of a payload *)
EphemeralClaimsOf(wire) ==
    [sub |-> wire.payload.sub, agent_id |-> wire.payload.agent_id,
     team_id |-> wire.payload.team_id, secret |-> wire.payload.secret,
     exp |-> wire.payload.exp, iat |-> wire.payload.iat,
     jti |-> wire.payload.jti, token_type |-> wire.payload.token_type,
     sig |-> wire.sig]

(* EphemeralTokenService::verify_token of any token under the secret: a
   payload without a field of EphemeralTokenClaims fails decode() *)
VerifyTokenOnWire(wire) ==
    IF EphemeralTokenClaimsFields \subseteq DOMAIN wire.payload
    THEN VerifyToken(EphemeralClaimsOf(wire), "none")
    ELSE /\ last' = [Call("verify", "none", "none", 0, "Unauthorized")
                        EXCEPT !.sig = wire.sig,
                               !.presented = Kind(wire),
                               !.message = "Token verification failed"]
         /\ UNCHANGED <<agents, credentials, versions, audit, tokens, usageLog,
                        returned, now, hist, tasks, teams, users, apiKeys,
                        quotas>>

NextMixed ==
    \/ GenerateToken("a1", "db", "none")
    \/ \E r \in Roles : JwtCreateToken("u1", "t1", r)
    \/ JwtCreateRefreshToken("u1", "t1", "admin")
    \/ \E t \in returned : VerifyTokenOnWire(Wire(t))
    \/ \E t \in returned : JwtVerify(Wire(t))
    \/ \E t \in returned : JwtVerifyRefresh(Wire(t))

SpecMixed == InitTok /\ [][NextMixed]_vars

----------------------------------------------------------------------------
(* The version chain *)

VersionNumbers(rows) == {rows[i].version : i \in DOMAIN rows}

(* C1: after create and k committed rotations, run one at a time, the
   credential has exactly the version rows 1..k+1, each number once; exactly
   one row is active and it has the highest number; every other row is
   superseded with expired_at set. *)
C1_VersionDensity ==
    \A c \in DOMAIN credentials :
        LET rows == versions[c]
            k == hist.rotations[c]
        IN  /\ Len(rows) = k + 1
            /\ VersionNumbers(rows) = 1 .. (k + 1)
            /\ Cardinality(ActiveRows(rows)) = 1
            /\ \A i \in DOMAIN rows :
                   IF rows[i].version = k + 1
                   THEN rows[i].status = "active"
                   ELSE rows[i].status = "superseded" /\ rows[i].expired_at # Null

(* A credential rotated twice, once by rotate_credential and once by an
   update carrying a secret, at different instants *)
C1_Witness ==
    \E c \in DOMAIN credentials :
        /\ hist.rotations[c] = 2
        /\ versions[c][1].expired_at # versions[c][2].expired_at
        /\ versions[c][2].encrypted_value.pt # versions[c][3].encrypted_value.pt

----------------------------------------------------------------------------
(* Tenancy *)

ByIdOps == {"get", "decrypt", "update", "rotate", "delete", "versions"}

(* C9: a call addressed by credential id whose credential belongs to another
   tenant than the caller's returns Forbidden, carries no credential data and
   no secret, and leaves credentials, versions and audit log as they were. *)
C9_ForeignTenantForbidden ==
    [][(/\ last'.op \in ByIdOps
        /\ FindById(credentials, last'.cred)
        /\ credentials[last'.cred].team_id # last'.team)
       => (/\ last'.result = "Forbidden"
           /\ last'.secret = "none"
           /\ last'.listed = <<>>
           /\ last'.summaries = <<>>
           /\ UNCHANGED <<credentials, versions, audit>>)]_vars

(* A caller of another tenant was refused the rotation of a live credential *)
C9_Witness ==
    /\ last.op = "rotate"
    /\ last.result = "Forbidden"
    /\ FindById(credentials, last.cred)
    /\ credentials[last.cred].team_id # last.team

(* C10: a list result never holds a credential of another tenant than the
   caller's, whatever agent id the caller supplies. *)
C10_ListOnlyOwnTenant ==
    last.op = "list" =>
        \A i \in DOMAIN last.listed :
            credentials[last.listed[i]].team_id = last.team

----------------------------------------------------------------------------
(* Ephemeral tokens *)

Logged(jti, action) ==
    {i \in DOMAIN usageLog : usageLog[i].jti = jti /\ usageLog[i].action = action}

(* C3: once revoke_token has returned success for a jti, every later
   verify_token of a token with that jti is refused with Unauthorized,
   whatever ran in between (issues, verifications, sweeps, rotations, the
   clock). *)
C3_RevokedNeverVerifies ==
    (last.op = "verify" /\ last.jti \in hist.revoked) => last.result = "Unauthorized"

(* A genuine, unexpired token that was accepted once, revoked, and is now
   refused *)
C3_Witness ==
    /\ last.op = "verify" /\ last.sig = "valid"
    /\ last.jti \in hist.revoked
    /\ last.at <= tokens[last.jti].expires_at
    /\ Logged(last.jti, "used") # {}
    /\ last.result = "Unauthorized"

(* C5: revoke_token of a jti whose row is already 'revoked' returns success
   and leaves the rows (status, revoked_at) and the usage log as they were;
   of a jti with no row it returns NotFound and changes nothing. *)
C5_RevokeIdempotent ==
    [][(last'.op = "revoke" /\ last' # last)
        => /\ (last'.jti \in DOMAIN tokens /\ tokens[last'.jti].status = "revoked")
                => (last'.result = "Ok" /\ UNCHANGED <<tokens, usageLog>>)
           /\ last'.jti \notin DOMAIN tokens
                => (last'.result = "NotFound" /\ UNCHANGED <<tokens, usageLog>>)]_vars

(* A second revoke, later than the first, that returned Ok: revoked_at is
   still the first one's and the log has the one 'revoked' entry *)
C5_Witness ==
    /\ last.op = "revoke" /\ last.result = "Ok"
    /\ last.jti \in DOMAIN tokens
    /\ tokens[last.jti].status = "revoked"
    /\ tokens[last.jti].revoked_at < last.at
    /\ Cardinality(Logged(last.jti, "revoked")) = 1

(* C6: every token generate_token has returned has a persisted row and an
   'issued' usage-log entry with its jti, also when other calls of
   generate_token failed at one of their store calls. *)
C6_ReturnedTokenIsLogged ==
    \A t \in returned : t.jti \in DOMAIN tokens /\ Logged(t.jti, "issued") # {}

(* A token was returned after an earlier generate_token had failed *)
C6_Witness ==
    /\ last.op = "generate" /\ last.result = "Ok"
    /\ last.jti = 2
    /\ Cardinality(returned) = 1

(* C7: no persisted token row is without an 'issued' usage-log entry, even
   when generate_token fails or is cancelled at one of its store calls. *)
C7_RowImpliesIssuedEntry ==
    \A j \in DOMAIN tokens : Logged(j, "issued") # {}

(* C8: verify_token refuses a token whose lifetime has elapsed (the call's
   instant is past exp = iat + TTL), whether or not the sweep has marked its
   row. *)
C8_ElapsedTokenRefused ==
    (last.op = "verify" /\ last.jti \in DOMAIN tokens
        /\ last.at > tokens[last.jti].expires_at)
    => last.result # "Ok"

(* C4: a verify_token whose row lookup runs after a revoke's update of that
   jti has committed sees the row 'revoked' and returns Unauthorized; the
   lookup is made only by a request whose token has passed signature
   validation; and a verify_token that starts after the revoke committed,
   however soon after the issue the revoke came, never returns Ok. *)
C4_VerifyAfterRevokeRefused ==
    LET v == tasks.v
    IN  /\ (v.looked /\ v.after) => v.seen = "revoked"
        /\ (v.pc = "done" /\ v.looked /\ v.after) => v.result = "Unauthorized"
        /\ v.looked => v.token.sig = "valid"
        /\ (v.pc = "done" /\ v.startedAfter) => v.result = "Unauthorized"

(* A genuine, unexpired token; the verify passed signature validation before
   the revoke's update committed, looked the row up after it, and was
   refused, the revoke request itself not yet finished *)
C4_Witness ==
    LET v == tasks.v
    IN  /\ v.pc = "done" /\ v.looked /\ v.after /\ ~v.startedAfter
        /\ v.token.sig = "valid" /\ now <= v.token.exp
        /\ v.result = "Unauthorized"
        /\ tasks.r.pc = "log"

(* C2: with rotate transactions on one credential interleaved, every
   committed state has that credential's version numbers dense and each held
   by one row, and at most one row active. *)
C2_SerialisedRotation ==
    \A c \in DOMAIN versions :
        LET rows == versions[c]
        IN  /\ VersionNumbers(rows) = 1 .. Len(rows)
            /\ Cardinality(ActiveRows(rows)) <= 1

(* C11: every credential row carries the tenant of the agent it belongs to,
   whichever tenant's user created it against whichever agent id. *)
C11_CredentialTenantIsAgentTenant ==
    \A c \in DOMAIN credentials :
        credentials[c].team_id = agents[credentials[c].agent_id].team_id

----------------------------------------------------------------------------
(* Session tokens *)

(* C12: an access token is never accepted by verify_refresh_token, and
   AuthService::refresh_token given an access token returns an error and
   mints no token. *)
C12_AccessTokenFailsRefresh ==
    (last.op \in {"verify_refresh_token", "refresh_token"}
        /\ last.presented = "access")
    => (last.result # "Ok" /\ last.minted = {})

(* A genuine, unexpired access token was given to refresh_token and refused *)
C12_Witness ==
    /\ last.op = "refresh_token" /\ last.presented = "access"
    /\ last.sig = "valid" /\ last.at = 0
    /\ last.result = "Unauthorized"

(* C13: a refresh token is not accepted where an access token is required:
   verify_token and the AuthUser extractor refuse it. *)
C13_RefreshTokenFailsAccess ==
    (last.op \in {"verify_token", "auth_user"} /\ last.presented = "refresh")
    => last.result # "Ok"

----------------------------------------------------------------------------
(* Registration and login *)

(* C14: login does not disclose which factor failed: every Unauthorized it
   returns (no live user, inactive account, wrong password) carries the
   message "Invalid credentials". *)
C14_LoginErrorsIndistinguishable ==
    (last.op = "login" /\ last.result = "Unauthorized")
    => last.message = "Invalid credentials"

(* What a login of an existing active user leaves behind *)
LoginOutcome(email, password) ==
    \A u \in FindByEmail(email) :
        users[u].is_active =>
            IF users[u].password_hash # Hash(password)
            THEN /\ last'.result = "Unauthorized"
                 /\ last'.minted = {}
                 /\ users' = users
                 /\ audit' = Append(audit, [team_id |-> users[u].team_id,
                                            event_type |-> "login_failed",
                                            resource_id |-> u])
            ELSE /\ last'.result = "Ok"
                 /\ users'[u].last_login = now
                 /\ audit' = Append(audit, [team_id |-> users[u].team_id,
                                            event_type |-> "login",
                                            resource_id |-> u])

(* C15: a login of an existing active user with a wrong password returns
   Unauthorized, issues no tokens, leaves last_login alone and appends
   exactly one login_failed event under the user's tenant; a successful
   login updates last_login and appends a login event. *)
C15_LoginFailureAndSuccess ==
    [][\A e \in Emails, p \in LoginPasswords :
           (ValidEmail(e) /\ Login(e, p)) => LoginOutcome(e, p)]_vars

(* A wrong-password login of an active user has been refused and logged *)
C15_Witness ==
    /\ last.op = "login" /\ last.result = "Unauthorized" /\ last.user # 0
    /\ users[last.user].is_active
    /\ users[last.user].last_login = Null
    /\ audit # <<>>
    /\ audit[Len(audit)].event_type = "login_failed"
    /\ audit[Len(audit)].team_id = users[last.user].team_id

(* What a successful register leaves behind *)
Registered ==
    /\ last.team \in DOMAIN teams
    /\ last.user \in DOMAIN users
    /\ teams[last.team].owner_id = last.user
    /\ users[last.user].role = "admin"
    /\ users[last.user].team_id = last.team
    /\ \E token \in last.minted :
           /\ Kind(token) = "access"
           /\ token.payload.team_id = last.team
           /\ token.payload.role = "admin"

(* C16: registration is all-or-nothing: after a successful register the
   tenant exists and is owned by the new user, an admin of that tenant, and
   the access token carries that tenant and role; a register that fails
   persists no tenant row and no user row. *)
C16_RegisterAllOrNothing ==
    [][\A e \in Emails, p \in Passwords, n \in TeamNames, f \in RegisterFaults :
           Register(e, p, n, f) =>
               IF last'.result = "Ok" THEN Registered'
               ELSE teams' = teams /\ users' = users]_vars

----------------------------------------------------------------------------
(* Agents *)

(* The owner of a key row is deleted or not active *)
OwnerGone(i) ==
    \/ agents[apiKeys[i].agent_id].deleted_at # Null
    \/ agents[apiKeys[i].agent_id].status # "active"

(* C17: once delete_agent has succeeded every key row of the agent is
   revoked, together with the deletion timestamp and for good, and a lookup
   by any key of a deleted agent, or of an agent whose status is not active,
   returns Unauthorized. *)
C17_DeletedAgentKeysNeverResolve ==
    /\ [](\A i \in DOMAIN apiKeys :
            agents[apiKeys[i].agent_id].deleted_at # Null
                => apiKeys[i].status = "revoked")
    /\ [][/\ \A a \in DOMAIN agents :
                agents[a].deleted_at # Null => agents'[a].deleted_at # Null
          /\ \A i \in DOMAIN apiKeys :
                apiKeys[i].status = "revoked" => apiKeys'[i].status = "revoked"
          /\ \A k \in ApiKeys :
                (GetAgentByApiKey(k)
                    /\ \E i \in DOMAIN apiKeys :
                           apiKeys[i].api_key_hash = ApiKeyHash(k) /\ OwnerGone(i))
                => last'.result = "Unauthorized"]_vars

(* The key of a deleted agent was presented and refused *)
C17_Witness ==
    /\ last.op = "get_agent_by_api_key" /\ last.result = "Unauthorized"
    /\ \E i \in DOMAIN apiKeys :
           /\ apiKeys[i].api_key_hash = ApiKeyHash(last.presented)
           /\ apiKeys[i].status = "revoked"
           /\ agents[apiKeys[i].agent_id].deleted_at # Null
           /\ agents[apiKeys[i].agent_id].deleted_at <= last.at

(* C18: the live agents of a tenant never exceed its max_agents, also when
   create_agent calls of the tenant run concurrently, and a create_agent
   that finds the count at max_agents returns Conflict and persists no
   agent, key, quota or audit row. *)
C18_AgentCapHolds ==
    /\ [](\A t \in DOMAIN teams :
            Cardinality(LiveAgents(agents, t)) <= teams[t].max_agents)
    /\ [][\A k \in AgentTasks, n \in AgentNames :
            (CreateAgentCheck(k, "t1", n)
                /\ Cardinality(LiveAgents(agents, "t1")) >= teams["t1"].max_agents)
            => /\ tasks'[k].pc = "done" /\ tasks'[k].result = "Conflict"
               /\ UNCHANGED <<agents, apiKeys, quotas, audit>>]_vars

(* C19: every persisted agent whose create_agent is over, however it ended,
   has a quota row for the month of its creation, and a create_agent that
   returned an error persisted no agent. *)
C19_QuotaAtomicWithAgent ==
    /\ \A a \in DOMAIN agents :
           (\A k \in AgentTasks : tasks[k].agent = a => tasks[k].pc = "done")
           => \E i \in DOMAIN quotas :
                  quotas[i].agent_id = a /\ quotas[i].month_year = MonthYear(now)
    /\ \A k \in AgentTasks :
           (tasks[k].pc = "done" /\ tasks[k].result # "Ok")
           => tasks[k].agent \notin DOMAIN agents

----------------------------------------------------------------------------
(* Credential creation *)

(* C20: create_credential is all-or-nothing: on success the credential row,
   its version 1 with status active and one credential.create audit event
   are persisted; on an error (validation, quota, name collision or any
   later failure) none of the three is. *)
C20_CreateAllOrNothing ==
    [][\A t \in Tenants, a \in AgentIds, n \in Names, s \in {"s1", ""}, f \in CreateFaults :
           CreateCredential(t, a, n, s, "true", Null, f) =>
               IF last'.result = "Ok"
               THEN /\ last'.cred \in DOMAIN credentials' \ DOMAIN credentials
                    /\ Len(versions'[last'.cred]) = 1
                    /\ versions'[last'.cred][1].version = 1
                    /\ versions'[last'.cred][1].status = "active"
                    /\ audit' = Append(audit, [team_id |-> t,
                                               event_type |-> "credential.create",
                                               resource_id |-> last'.cred])
               ELSE UNCHANGED <<credentials, versions, audit>>]_vars

----------------------------------------------------------------------------
(* Names *)

(* C21: creating an agent under the name of a live agent of the tenant, or
   a credential under the name of a live credential of the agent, returns
   Conflict and persists nothing; no two live agents share (team_id, name)
   and no two live credentials share (agent_id, name), also when creates run
   concurrently. *)
C21_LiveNamesUnique ==
    /\ [](/\ \A a, b \in DOMAIN agents :
               (/\ a # b
                /\ agents[a].deleted_at = Null /\ agents[b].deleted_at = Null
                /\ agents[a].team_id = agents[b].team_id)
               => agents[a].name # agents[b].name
          /\ \A c, d \in DOMAIN credentials :
               (/\ c # d
                /\ credentials[c].deleted_at = Null /\ credentials[d].deleted_at = Null
                /\ credentials[c].agent_id = credentials[d].agent_id)
               => credentials[c].name # credentials[d].name)
    /\ [][\A k \in AgentTasks :
            /\ (/\ CreateAgentInsert(k)
                /\ \E a \in LiveAgents(agents, tasks[k].team) :
                       agents[a].name = tasks[k].name)
               => /\ tasks'[k].pc = "done" /\ tasks'[k].result = "Conflict"
                  /\ UNCHANGED <<agents, apiKeys, quotas, audit>>
            /\ (/\ CreateCredentialInsert(k)
                /\ \E c \in LiveOfAgent(credentials, tasks[k].agent) :
                       credentials[c].name = tasks[k].name)
               => /\ tasks'[k].pc = "done" /\ tasks'[k].result = "Conflict"
                  /\ UNCHANGED <<credentials, versions, audit>>]_vars

(* Two creates of one name raced past the quota check; the later insert was
   refused while the credential of the earlier one is live *)
C21_Witness ==
    \E k, j \in AgentTasks :
        /\ tasks[k].message = "Credential name already exists for this agent"
        /\ tasks[j].pc \in {"log", "done"} /\ tasks[j].result # "Conflict"
        /\ tasks[j].name = tasks[k].name /\ tasks[j].agent = tasks[k].agent
        /\ \E c \in LiveOfAgent(credentials, tasks[k].agent) :
               credentials[c].name = tasks[k].name

----------------------------------------------------------------------------
(* Rotation *)

(* C22: a new version of a credential is created only while its rotation is
   enabled: rotate_credential on a credential with rotation_enabled = false
   returns ValidationError and leaves credential, versions and audit log
   alone, and an update_credential carrying a secret rotates under the same
   requirement. *)
C22_NewVersionOnlyWhileRotationEnabled ==
    [][/\ \A c \in DOMAIN versions :
            Len(versions'[c]) > Len(versions[c]) => credentials[c].rotation_enabled
       /\ \A c \in CredIds, s \in {"s2", ""} :
            (/\ RotateCredential("t1", c, s)
             /\ FindById(credentials, c)
             /\ ~credentials[c].rotation_enabled)
            => /\ last'.result = "ValidationError"
               /\ UNCHANGED <<credentials, versions, audit>>]_vars

(* C23: in every state a live credential has an active version and its
   encrypted_value is the encrypted_value of that version, so that
   decrypt_credential and generate_token, which read the credential row,
   give the secret of the most recent successful create or rotation. *)
C23_CredentialMatchesActiveVersion ==
    \A c \in DOMAIN credentials :
        credentials[c].deleted_at = Null =>
            /\ ActiveRows(versions[c]) # {}
            /\ \A i \in ActiveRows(versions[c]) :
                   versions[c][i].encrypted_value = credentials[c].encrypted_value

----------------------------------------------------------------------------
(* Soft delete *)

Deleted(c) == c \in DOMAIN credentials /\ credentials[c].deleted_at # Null

(* A deleted credential stays deleted with its version rows stored, every
   handler addressed by its id answers NotFound, and the list of its agent
   omits it *)
DeletedIsGone ==
    \A c \in CredIds :
        Deleted(c) =>
            /\ Deleted(c)' /\ versions'[c] = versions[c] /\ versions[c] # <<>>
            /\ (\/ GetCredential("t1", c) \/ DecryptCredential("t1", c)
                \/ UpdateCredential("t1", c, "d", "None", Null, "None")
                \/ RotateCredential("t1", c, "s2") \/ GetVersions("t1", c)
                \/ DeleteCredential("t1", c))
               => last'.result = "NotFound"
            /\ ListCredentials("t1", "a1", Null, Null)
               => \A i \in DOMAIN last'.listed : last'.listed[i] # c

(* C24 as stated: after delete_credential the handlers addressed by the id
   return NotFound, the list omits the credential, its versions stay stored,
   and generate_token by its name returns NotFound. *)
C24_DeletedUnreachable ==
    [][/\ DeletedIsGone
       /\ \A c \in CredIds :
            (/\ Deleted(c) /\ credentials[c].agent_id = "a1"
             /\ credentials[c].name = "db"
             /\ GenerateToken("a1", "db", "none"))
            => last'.result = "NotFound"]_vars

(* C24 amended: generate_token by the name of a deleted credential returns
   NotFound unless a live credential of the agent carries the name, and the
   token it returns is never bound to the deleted credential. *)
C24_DeletedUnreachableUnlessRecreated ==
    [][/\ DeletedIsGone
       /\ \A c \in CredIds :
            (/\ Deleted(c) /\ credentials[c].agent_id = "a1"
             /\ credentials[c].name = "db"
             /\ GenerateToken("a1", "db", "none"))
            => /\ last'.cred # c
               /\ FindByName(credentials, "a1", "db") = {}
                  => last'.result = "NotFound"]_vars

(* A deleted credential was asked for by id and by name and not found, its
   versions still stored *)
C24_Witness ==
    \E c \in CredIds :
        /\ Deleted(c) /\ versions[c] # <<>>
        /\ last.op \in {"get", "generate"} /\ last.result = "NotFound"
        /\ last.op = "get" => last.cred = c

(* C25: the decrypt route under an agent's API key hands a secret out only for
   a credential of that agent: asked by agent B for a live credential of
   another agent, of B's tenant or of another one, under either agent id in
   the path, it answers Forbidden and carries no secret. *)
C25_AgentDecryptsOnlyOwn ==
    (/\ last.op = "agent_decrypt"
     /\ last.agent # "none"
     /\ FindById(credentials, last.cred)
     /\ credentials[last.cred].agent_id # last.agent)
    => (last.result = "Forbidden" /\ last.secret = "none")

(* the refusal that comes after the service has decrypted: B's own path, a
   credential of B's tenant that belongs to A *)
C25_Witness ==
    /\ last.op = "agent_decrypt"
    /\ last.agent = "a3" /\ last.user = "a3"
    /\ FindById(credentials, last.cred)
    /\ credentials[last.cred].agent_id = "a1"
    /\ credentials[last.cred].team_id = "t1"
    /\ last.result = "Forbidden"
    /\ \E i \in DOMAIN audit : audit[i].event_type = "credential.decrypt"

(* C26: generate_token(agent, name) returns a token only to a live agent of
   status 'active' for a live, is_active credential of that name of that same
   agent; the token and the persisted row, of status 'active', then bind that
   credential's id, the agent's id and the credential's tenant; otherwise (a
   suspended agent: Forbidden; no such credential of this agent: NotFound; an
   inactive credential) no token row and no usage-log entry is made. *)
C26_TokenOnlyForOwnActiveCredential ==
    [][\A a \in AgentIds, n \in CredentialNames :
          GenerateToken(a, n, "none") =>
              LET live == a \in DOMAIN agents /\ agents[a].deleted_at = Null
                  own == {c \in DOMAIN credentials :
                              /\ credentials[c].agent_id = a
                              /\ credentials[c].name = n
                              /\ credentials[c].deleted_at = Null}
                  eligible == /\ live /\ agents[a].status = "active"
                              /\ \E c \in own : credentials[c].is_active
              IN  IF last'.result = "Ok"
                  THEN /\ eligible
                       /\ last'.cred \in own
                       /\ last'.jti \notin DOMAIN tokens
                       /\ DOMAIN tokens' = DOMAIN tokens \cup {last'.jti}
                       /\ tokens'[last'.jti].credential_id = last'.cred
                       /\ tokens'[last'.jti].agent_id = a
                       /\ tokens'[last'.jti].team_id = credentials[last'.cred].team_id
                       /\ tokens'[last'.jti].status = "active"
                       /\ \E t \in returned' \ returned :
                              /\ t.jti = last'.jti /\ t.sub = last'.cred
                              /\ t.agent_id = a
                              /\ t.team_id = credentials[last'.cred].team_id
                  ELSE /\ ~eligible
                       /\ tokens' = tokens /\ usageLog' = usageLog
                       /\ returned' = returned
                       /\ (live /\ agents[a].status # "active")
                              => last'.result = "Forbidden"
                       /\ (live /\ agents[a].status = "active" /\ own = {})
                              => last'.result = "NotFound"]_vars

(* a token has been issued, and a suspended agent and an agent asking for
   another agent's credential have been refused *)
C26_Witness ==
    /\ tokens # <<>>
    /\ last.op = "generate"
    /\ \/ last.result = "Forbidden" /\ agents[last.agent].status = "suspended"
       \/ /\ last.result = "NotFound" /\ last.agent = "a2"
          /\ agents["a2"].deleted_at = Null
          /\ \E c \in DOMAIN credentials : credentials[c].deleted_at = Null
                                           /\ credentials[c].name = "db"

(* C27: under admin over developer over viewer, get, list and versions ask for
   viewer, create, update and rotate for developer, delete for admin; a caller
   below the minimum, or of no role of the three, gets Forbidden and the
   service does not run; a caller at or above it reaches the service. *)
C27_MinimumRoles ==
    [][LET Rank(role) == CASE role = "admin" -> 3 [] role = "developer" -> 2
                           [] role = "viewer" -> 1 [] OTHER -> 0
           Minimum(op) == CASE op \in {"get", "list", "versions"} -> 1
                            [] op \in {"create", "update", "rotate"} -> 2
                            [] op = "delete" -> 3
           Refused(op) == /\ last'.op = op /\ last'.result = "Forbidden"
                          /\ last'.message = "Required role"
                          /\ UNCHANGED <<agents, credentials, versions, audit,
                                         tokens, usageLog, returned, hist>>
           Obeys(op, role) == IF Rank(role) >= Minimum(op)
                              THEN last'.op = op /\ last'.message # "Required role"
                              ELSE Refused(op)
       IN  \A role \in CallerRoles :
              /\ CreateHandler(role) => Obeys("create", role)
              /\ ListHandler(role) => Obeys("list", role)
              /\ \A id \in CredIds :
                    /\ GetHandler(role, id) => Obeys("get", role)
                    /\ UpdateHandler(role, id) => Obeys("update", role)
                    /\ DeleteHandler(role, id) => Obeys("delete", role)
                    /\ RotateHandler(role, id) => Obeys("rotate", role)
                    /\ VersionsHandler(role, id) => Obeys("versions", role)]_vars

(* a developer has been refused the delete of a credential that is there, and
   it is still there *)
C27_Witness ==
    /\ last.op = "delete" /\ last.message = "Required role" /\ last.user = "developer"
    /\ \E c \in DOMAIN credentials : credentials[c].deleted_at = Null
    /\ \E i \in DOMAIN audit : audit[i].event_type = "credential.rotate"

(* C28: a credential operation that succeeds appends exactly one audit event,
   of its own kind and under the caller's tenant: create credential.create,
   get credential.read, decrypt credential.decrypt, update credential.update,
   rotate credential.rotate, delete credential.delete; and no step changes or
   removes an event that is in the log. *)
C28_OneAuditEventPerOperation ==
    [][LET EventRow(t, kind, c) == [team_id |-> t, event_type |-> kind,
                                 resource_id |-> c]
           Appends(t, kind, c) == last'.result = "Ok"
                                     => audit' = Append(audit, EventRow(t, kind, c))
       IN  /\ Len(audit') >= Len(audit)
           /\ SubSeq(audit', 1, Len(audit)) = audit
           /\ \A t \in Tenants :
                 /\ \A a \in AgentIds, n \in Names :
                        CreateCredential(t, a, n, "s1", "true", Null, "none")
                            => Appends(t, "credential.create", last'.cred)
                 /\ \A c \in CredIds :
                        /\ GetCredential(t, c) => Appends(t, "credential.read", c)
                        /\ DecryptCredential(t, c)
                               => Appends(t, "credential.decrypt", c)
                        /\ RotateCredential(t, c, "s2")
                               => Appends(t, "credential.rotate", c)
                        /\ DeleteCredential(t, c)
                               => Appends(t, "credential.delete", c)
                        /\ \A s \in {"None", "s2"} :
                               UpdateCredential(t, c, "d", "None", Null, s)
                                   => Appends(t, "credential.update", c)]_vars

(* three operations of two tenants have succeeded, the last an update that
   also replaced the secret *)
C28_Witness ==
    /\ Len(audit) = MaxAudit
    /\ audit[1].event_type = "credential.create"
    /\ audit[Len(audit)].event_type = "credential.update"
    /\ last.op = "update" /\ last.result = "Ok"
    /\ Len(versions[last.cred]) = 2
    /\ \E i \in DOMAIN audit : audit[i].team_id # last.team

(* C29, as stated: two runs of the same calls that differ only in the secrets
   supplied to create, rotate and update leave identical audit and token
   usage logs. *)
C29_LogsIndependentOfSecrets ==
    /\ tasks.left.audit = tasks.right.audit
    /\ tasks.left.usageLog = tasks.right.usageLog

(* C29, amended: two runs of the same calls that differ only in the secrets
   supplied, none of them empty, leave identical audit and token usage logs:
   no entry carries secret material. *)
C29_LogsIndependentOfAcceptedSecrets ==
    tasks.accepted => C29_LogsIndependentOfSecrets

(* the runs hold different secrets, each has decrypted its own and issued a
   token for it *)
C29_Witness ==
    /\ tasks.accepted
    /\ \E c \in DOMAIN tasks.left.credentials :
           tasks.left.credentials[c].encrypted_value
               # tasks.right.credentials[c].encrypted_value
    /\ \E i \in DOMAIN tasks.left.audit :
           tasks.left.audit[i].event_type = "credential.decrypt"
    /\ tasks.left.usageLog # <<>>

(* C30: what encrypt put out decrypts under the same key to exactly the
   plaintext, the empty one too; the blob is the 12-byte nonce followed by
   ciphertext and tag, at least 28 bytes long; an input shorter than 28 bytes
   is rejected with InvalidCiphertext. *)
C30_CipherRoundTrip ==
    /\ (last.op = "decrypt" /\ tasks.fresh /\ last.user = tasks.key)
           => (last.result = "Ok" /\ last.listed = tasks.plaintext)
    /\ tasks.fresh =>
           /\ Len(tasks.encrypted) >= NONCE_SIZE + TAG_SIZE
           /\ tasks.encrypted =
                  tasks.nonce \o Aes256GcmEncrypt(tasks.key, tasks.nonce,
                                                  tasks.plaintext)
    /\ (last.op = "decrypt" /\ last.count < NONCE_SIZE + TAG_SIZE)
           => last.result = "InvalidCiphertext"

(* the parts of C30 the code keeps: the round trip, the hex text of nonce,
   ciphertext and tag, and InvalidCiphertext for a text that decodes to fewer
   than 28 bytes *)
CipherRoundTripOfHexText ==
    /\ (last.op = "decrypt" /\ tasks.fresh /\ last.user = tasks.key)
           => (last.result = "Ok" /\ last.listed = tasks.plaintext)
    /\ tasks.fresh =>
           tasks.encrypted =
               HexEncode(tasks.nonce \o Aes256GcmEncrypt(tasks.key, tasks.nonce,
                                                         tasks.plaintext))
    /\ (last.op = "decrypt" /\ last.result = "InvalidCiphertext")
           <=> (/\ last.op = "decrypt" /\ last.count % 2 = 0
                /\ \A i \in DOMAIN tasks.encrypted : tasks.encrypted[i] <= 15
                /\ last.count < 2 * (NONCE_SIZE + TAG_SIZE))

(* a text of seven characters has been refused as no hex text *)
ShortInputNotInvalidCiphertext ==
    last.op = "decrypt" /\ last.count = 7 /\ last.result = "HexDecodeError"

(* C31: aad(agent_id, credential_id) is the 32 bytes of the two ids, one after
   the other, and no two pairs share one; a blob encrypted for (A, C) does not
   decrypt under the aad of any other pair; decrypt_credential and
   generate_token on a row whose encrypted_value was moved in from another
   credential or agent fail and hand out no secret. *)
C31_AadBinding ==
    /\ [](/\ \A a \in AgentIds, c \in CredIds : Len(AadBytes(a, c)) = 32
          /\ \A a, b \in AgentIds, c, d \in CredIds :
                 (AadBytes(a, c) = AadBytes(b, d)
                     <=> AadGenerate(a, c) = AadGenerate(b, d))
                 /\ (AadGenerate(a, c) = AadGenerate(b, d) <=> (a = b /\ c = d))
          /\ \A id \in DOMAIN credentials, a \in AgentIds, c \in CredIds :
                 Decrypt(credentials[id].encrypted_value, AadGenerate(a, c)).ok
                     => credentials[id].encrypted_value.aad = AadGenerate(a, c))
    /\ [][LET Moved(id) == credentials[id].encrypted_value.aad
                               # AadGenerate(credentials[id].agent_id, id)
          IN  /\ \A c \in CredIds :
                     (DecryptCredential("t2", c) /\ Access("t2", c) = "Ok" /\ Moved(c))
                         => (last'.result = "InternalError"
                             /\ last'.secret = "none" /\ audit' = audit)
              /\ \A a \in AgentIds :
                     (/\ GenerateToken(a, "db", "none")
                      /\ \E c \in FindByName(credentials, a, "db") : Moved(c))
                         => (/\ last'.result = "InternalError"
                             /\ returned' = returned /\ tokens' = tokens)]_vars

(* agent a2's credential holds the value encrypted for agent a1's, and
   generate_token for it has failed *)
C31_Witness ==
    /\ last.op = "generate" /\ last.result = "InternalError" /\ last.agent = "a2"
    /\ \E c \in DOMAIN credentials :
           /\ credentials[c].agent_id = "a2" /\ credentials[c].deleted_at = Null
           /\ credentials[c].encrypted_value.aad[1] = "a1"

(* C32: update_credential is a partial update over every subset of
   description, rotation_enabled and rotation_interval_days: a supplied field
   takes the supplied value, an omitted one keeps its value, the call
   succeeds, and rotation_enabled = false sets next_rotation_due to NULL. *)
C32_PartialUpdate ==
    [][\A c \in CredIds, d \in {"None", "d"}, re \in OptBools, iv \in Intervals :
          (UpdateCredential("t1", c, d, re, iv, "None") /\ Access("t1", c) = "Ok")
              => /\ last'.result = "Ok"
                 /\ credentials'[c].description =
                        IF d # "None" THEN d ELSE credentials[c].description
                 /\ credentials'[c].rotation_enabled =
                        IF re # "None" THEN OptBool(re)
                        ELSE credentials[c].rotation_enabled
                 /\ credentials'[c].rotation_interval_days =
                        IF iv # Null THEN iv
                        ELSE credentials[c].rotation_interval_days
                 /\ re = "false" => credentials'[c].next_rotation_due = Null]_vars

(* what Credential::update keeps of C32: the partial update, for the calls
   that supply rotation_enabled whenever they supply an interval *)
PartialUpdateOfAcceptedStatements ==
    [][\A c \in CredIds, d \in {"None", "d"}, re \in OptBools, iv \in Intervals :
          (/\ UpdateCredential("t1", c, d, re, iv, "None") /\ Access("t1", c) = "Ok"
           /\ (iv = Null \/ re # "None"))
              => /\ last'.result = "Ok"
                 /\ credentials'[c].description =
                        IF d # "None" THEN d ELSE credentials[c].description
                 /\ credentials'[c].rotation_enabled =
                        IF re # "None" THEN OptBool(re)
                        ELSE credentials[c].rotation_enabled
                 /\ credentials'[c].rotation_interval_days =
                        IF iv # Null THEN iv
                        ELSE credentials[c].rotation_interval_days
                 /\ re = "false" => credentials'[c].next_rotation_due = Null]_vars

(* C33: the sweep turns to 'expired' exactly the rows that are 'active' with
   expires_at before now, returns how many it turned, leaves every other row
   and every other field as it was, and run again at the same time returns 0. *)
C33_SweepExactlyTheDue ==
    [][CleanupExpiredTokens =>
          LET due == {j \in DOMAIN tokens : /\ tokens[j].status = "active"
                                            /\ tokens[j].expires_at < now}
          IN  /\ DOMAIN tokens' = DOMAIN tokens
              /\ \A j \in DOMAIN tokens :
                     tokens'[j] = IF j \in due
                                  THEN [tokens[j] EXCEPT !.status = "expired"]
                                  ELSE tokens[j]
              /\ last'.count = Cardinality(due)
              /\ UNCHANGED <<usageLog, returned, credentials, agents, audit>>
              /\ (last.op = "sweep" /\ last.at = now) => last'.count = 0]_vars

(* a sweep has expired one row and passed over a revoked row that was due *)
C33_Witness ==
    /\ last.op = "sweep" /\ last.count = 1
    /\ \E j \in DOMAIN tokens : tokens[j].status = "expired"
    /\ \E j \in DOMAIN tokens : tokens[j].status = "revoked" /\ tokens[j].expires_at < now

(* C34: over every interleaving of generate_token, verify_token, revoke_token
   and the sweep, a token row's status moves only from active to revoked,
   from active to expired or from expired to revoked; revoked is final, and a
   revoked row has a revoked_at that never changes afterwards. *)
C34_StatusNeverBackToActive ==
    /\ [](\A j \in DOMAIN tokens :
              tokens[j].status = "revoked" => tokens[j].revoked_at # Null)
    /\ [][\A j \in DOMAIN tokens :
              /\ j \in DOMAIN tokens'
              /\ \/ tokens'[j].status = tokens[j].status
                 \/ tokens[j].status = "active"
                        /\ tokens'[j].status \in {"revoked", "expired"}
                 \/ tokens[j].status = "expired" /\ tokens'[j].status = "revoked"
              /\ tokens[j].status = "revoked"
                     => tokens'[j].revoked_at = tokens[j].revoked_at]_vars

(* what holds of C34 whatever the interleaving: the moves of status *)
StatusMovesForward ==
    [][\A j \in DOMAIN tokens :
              /\ j \in DOMAIN tokens'
              /\ \/ tokens'[j].status = tokens[j].status
                 \/ tokens[j].status = "active"
                        /\ tokens'[j].status \in {"revoked", "expired"}
                 \/ tokens[j].status = "expired" /\ tokens'[j].status = "revoked"]_vars

(* C35: two revoke_token calls for one active jti that run side by side both
   return success, leave the row 'revoked', and add exactly one 'revoked'
   entry for that jti to the usage log. *)
C35_ConcurrentRevokeLogsOnce ==
    (/\ tasks["r1"].pc = "done" /\ tasks["r2"].pc = "done"
     /\ tasks["r1"].seen = "active" /\ tasks["r2"].seen = "active"
     /\ tasks["r1"].token.jti = tasks["r2"].token.jti)
    => /\ tasks["r1"].result = "Ok" /\ tasks["r2"].result = "Ok"
       /\ tokens[tasks["r1"].token.jti].status = "revoked"
       /\ Cardinality({i \in DOMAIN usageLog :
                          /\ usageLog[i].jti = tasks["r1"].token.jti
                          /\ usageLog[i].action = "revoked"}) = 1

(* what holds of C35: both calls succeed and the row ends 'revoked' *)
ConcurrentRevokeBothSucceed ==
    (/\ tasks["r1"].pc = "done" /\ tasks["r2"].pc = "done"
     /\ tasks["r1"].seen = "active" /\ tasks["r2"].seen = "active"
     /\ tasks["r1"].token.jti = tasks["r2"].token.jti)
    => /\ tasks["r1"].result = "Ok" /\ tasks["r2"].result = "Ok"
       /\ tokens[tasks["r1"].token.jti].status = "revoked"

(* What verify_token looks at: the signature, exp against the clock, the
   token_type, and the status of the row with the token's jti *)
Admitted(t) ==
    /\ t.sig = "valid"
    /\ t.exp >= now - Leeway
    /\ t.token_type = "ephemeral"
    /\ t.jti \in DOMAIN tokens
    /\ tokens[t.jti].status = "active"

(* C36: a verify_token that fails (bad signature, expired, wrong token_type,
   unknown jti, revoked or expired row) changes no persisted state and appends
   no usage-log entry; one that succeeds appends exactly one 'used' entry with
   the token's jti, agent and tenant, and leaves the token row as it was. *)
C36_VerifyFrameAndEffect ==
    [][\A t \in Verifiable : VerifyToken(t, "none") =>
          /\ tokens' = tokens
          /\ UNCHANGED <<agents, credentials, versions, audit, teams, users,
                         apiKeys, quotas>>
          /\ ~Admitted(t) => last'.result # "Ok"
          /\ IF last'.result = "Ok"
             THEN usageLog' = Append(usageLog,
                                 [jti |-> t.jti, agent_id |-> t.agent_id,
                                  team_id |-> t.team_id, action |-> "used"])
             ELSE usageLog' = usageLog]_vars

(* a verify succeeded twice over on one row, which is still 'active' *)
C36_Witness ==
    /\ last.op = "verify" /\ last.result = "Ok"
    /\ tokens[last.jti].status = "active"
    /\ Cardinality({i \in DOMAIN usageLog :
                       /\ usageLog[i].action = "used"
                       /\ usageLog[i].jti = last.jti}) = 2

(* C37: the result of verify_token depends only on the token's signature, exp
   and token_type and on the status of the row with its jti: rotating or
   soft-deleting the credential, suspending or soft-deleting the agent change
   none of these, and a successful verify returns the secret the credential
   had when the token was issued. *)
C37_VerifyDependsOnTokenAndRowOnly ==
    [][/\ \A t \in Presentable : VerifyToken(t, "none") =>
             /\ (last'.result = "Ok") <=> Admitted(t)
             /\ last'.result = "Ok" => t \in returned /\ last'.secret = t.secret
       /\ (\/ RotateCredential("t1", 1, "s2")
           \/ DeleteCredential("t1", 1)
           \/ UpdateAgent("t1", "a1", "suspended")
           \/ DeleteAgent("t1", "a1"))
          => /\ returned' = returned
             /\ \A t \in Presentable : Admitted(t)' <=> Admitted(t)
       /\ GenerateToken("a1", "db", "none") =>
             /\ returned \subseteq returned'
             /\ \A t \in returned' \ returned :
                   t.secret = Decrypt(credentials[t.sub].encrypted_value,
                                      AadGenerate("a1", t.sub)).pt]_vars

(* a token issued under "s1" verifies with "s1" after the credential was
   rotated to "s2" and the agent soft-deleted *)
C37_Witness ==
    /\ last.op = "verify" /\ last.result = "Ok" /\ last.secret = "s1"
    /\ Decrypt(credentials[1].encrypted_value, AadGenerate("a1", 1)).pt = "s2"
    /\ agents["a1"].deleted_at # Null

(* C38: session tokens and ephemeral tokens are mutually exclusive: no token
   of create_token, create_token_with_expiry or create_refresh_token is
   accepted by EphemeralTokenService::verify_token, and no token of
   generate_token is accepted by JwtService::verify_token or
   verify_refresh_token. *)
C38_SessionAndEphemeralExclusive ==
    [][\A t \in returned :
          /\ (~IsEphemeral(t) /\ VerifyTokenOnWire(Wire(t)))
                => last'.result # "Ok" /\ usageLog' = usageLog
          /\ (IsEphemeral(t) /\ (JwtVerify(Wire(t)) \/ JwtVerifyRefresh(Wire(t))))
                => last'.result # "Ok"]_vars

(* JwtService::verify_token has refused a token of generate_token whose row
   is 'active', with session tokens handed out as well *)
C38_Witness ==
    /\ last.op = "verify_token" /\ last.result = "Json" /\ last.sig = "valid"
    /\ \E t \in returned : IsEphemeral(t) /\ tokens[t.jti].status = "active"
    /\ \E t \in returned : ~IsEphemeral(t)

(* C39: in every state create_credential, update_credential and rotations
   reach, a credential with rotation_enabled = false has next_rotation_due =
   NULL; and after a rotation of a credential with rotation enabled and an
   interval set, next_rotation_due is the rotation time plus
   rotation_interval_days and last_rotated is the rotation time. *)
C39_RotationDue ==
    /\ [](\A c \in DOMAIN credentials :
            /\ ~credentials[c].rotation_enabled
                  => credentials[c].next_rotation_due = Null
            /\ LET rotated == UpdateRotated(credentials[c], Encrypt("s2", <<>>), now)
               IN  (rotated.rotation_enabled /\ rotated.rotation_interval_days # Null)
                      => /\ rotated.last_rotated = now
                         /\ rotated.next_rotation_due =
                                now + Days(rotated.rotation_interval_days))
    /\ [][\A c \in CredIds, s \in {"s2", ""} :
             (RotateCredential("t1", c, s) /\ last'.result = "Ok")
                => (credentials[c].rotation_interval_days # Null
                       => /\ credentials'[c].rotation_enabled
                          /\ credentials'[c].last_rotated = now
                          /\ credentials'[c].next_rotation_due =
                                now + Days(credentials[c].rotation_interval_days))]_vars

(* a credential rotated at 5 with a 30 day interval *)
C39_Witness ==
    /\ last.op = "rotate" /\ last.result = "Ok" /\ now = 5
    /\ credentials[last.cred].rotation_interval_days = 30
    /\ credentials[last.cred].last_rotated = 5
    /\ credentials[last.cred].next_rotation_due = 5 + Days(30)

(* a credential with rotation off that keeps its interval and was rotated by
   an update carrying a secret: no due date *)
DisabledWithIntervalReached ==
    \E c \in DOMAIN credentials :
        /\ ~credentials[c].rotation_enabled
        /\ credentials[c].rotation_interval_days = 30
        /\ credentials[c].last_rotated = 5
        /\ credentials[c].next_rotation_due = Null

====
